---------------------------- MODULE Spec2Model ----------------------------
(***************************************************************************)
(* A model of the PDF harvester: the single-file agent                     *)
(* (src/src/pdf_harvester.py: harvest_one and its handlers) and the        *)
(* packaged agent (src/src/harvester.py: PdfHarvester.process_url, driven  *)
(* by src/src/main.py).                                                    *)
(*                                                                         *)
(* The browser (Playwright) is the environment.  Every call into it is a   *)
(* nondeterministic choice between the results it can give: a locator      *)
(* matches or not, a click succeeds or raises, a download event fires or   *)
(* times out, a navigation / screenshot / close returns or raises.         *)
(*                                                                         *)
(* Text is modelled as sequences of one-character strings, so that         *)
(* lower(), split("?"), endswith() and the substring test are computed.    *)
(***************************************************************************)
EXTENDS Integers, Sequences, FiniteSets, TLC

(***************************************************************************)
(* Bounds of the model (not program constants).                            *)
(***************************************************************************)
\* anchors drawn freely on a page handed to collect_candidate_links
MaxAnchors == 3
\* interactive elements on a page handed to a handler
MaxElems == 2
\* save_as calls that raise during one call of a Download Trigger
MaxSaveErrs == 1
\* tasks of a run
MaxTasks == 2
\* candidate links a task page offers
MaxCands == 2
\* links of a page met by the fallback of harvester.py
MaxLinks == 2
MaxResps == 3

(***************************************************************************)
(* Program constants.                                                      *)
(***************************************************************************)
MAX_CANDIDATE_LINKS == 10

\* keywords of collect_candidate_links: "pdf", "download", "outlook",
\* "report", "publication"
keywords ==
    << <<"p","d","f">>,
       <<"d","o","w","n","l","o","a","d">>,
       <<"o","u","t","l","o","o","k">>,
       <<"r","e","p","o","r","t">>,
       <<"p","u","b","l","i","c","a","t","i","o","n">> >>

(***************************************************************************)
(* Program constants: pdf_harvester.py                                     *)
(***************************************************************************)
COOKIE_TEXTS ==
    << <<"A","c","c","e","p","t"," ","a","l","l">>,
       <<"A","c","c","e","p","t"," ","A","l","l">>,
       <<"A","c","c","e","p","t">>,
       <<"I"," ","a","g","r","e","e">>,
       <<"I"," ","A","g","r","e","e">>,
       <<"A","g","r","e","e">>,
       <<"O","K">>,
       <<"O","k","a","y">>,
       <<"A","l","l","o","w"," ","a","l","l">>,
       <<"G","o","t"," ","i","t">>,
       <<"A","c","c","e","p","t"," ","c","o","o","k","i","e","s">>,
       <<"A","c","c","e","p","t"," ","C","o","o","k","i","e","s">> >>

CLOSE_TEXTS ==
    << <<"C","l","o","s","e">>,
       <<"D","i","s","m","i","s","s">>,
       <<"N","o"," ","t","h","a","n","k","s">>,
       <<"N","o","t"," ","n","o","w">> >>

\* the selectors of close_modals, by position: button[aria-label='Close'],
\* button[aria-label='close'], button:has-text(<the two-character icon text>)
CLOSE_ICON_SELECTORS == <<"aria_Close", "aria_close", "has_text_icon">>

\* the text of the third close-icon selector (two non-ASCII characters)
ICON_TEXT == <<"A~", "-">>

DOWNLOAD_HINTS ==
    << <<"d","o","w","n","l","o","a","d"," ","f","u","l","l"," ","p","d","f">>,
       <<"d","o","w","n","l","o","a","d"," ","p","d","f">>,
       <<"d","o","w","n","l","o","a","d">>,
       <<"p","d","f">>,
       <<"f","u","l","l"," ","r","e","p","o","r","t">>,
       <<"r","e","p","o","r","t"," ","p","d","f">>,
       <<"o","u","t","l","o","o","k">>,
       <<"v","i","e","w"," ","p","d","f">>,
       <<"d","o","w","n","l","o","a","d"," ","r","e","p","o","r","t">> >>

GATE_HINTS ==
    << <<"f","i","n","a","n","c","i","a","l"," ","i","n","t","e","r","m","e","d","i","a","r","y">>,
       <<"p","r","o","f","e","s","s","i","o","n","a","l"," ","i","n","v","e","s","t","o","r">>,
       <<"i","n","s","t","i","t","u","t","i","o","n","a","l"," ","i","n","v","e","s","t","o","r">>,
       <<"r","e","t","a","i","l"," ","i","n","v","e","s","t","o","r">>,
       <<"a","c","c","r","e","d","i","t","e","d">>,
       <<"q","u","a","l","i","f","i","e","d"," ","i","n","v","e","s","t","o","r">>,
       <<"i"," ","c","e","r","t","i","f","y">>,
       <<"j","u","r","i","s","d","i","c","t","i","o","n">>,
       <<"d","i","s","c","l","a","i","m","e","r">>,
       <<"t","e","r","m","s"," ","a","n","d"," ","c","o","n","d","i","t","i","o","n","s">>,
       <<"i","m","p","o","r","t","a","n","t"," ","i","n","f","o","r","m","a","t","i","o","n">> >>

UNKNOWN == <<"u","n","k","n","o","w","n">>
RETAIL == <<"r","e","t","a","i","l">>
PROFESSIONAL == <<"p","r","o","f","e","s","s","i","o","n","a","l">>
INSTITUTIONAL == <<"i","n","s","t","i","t","u","t","i","o","n","a","l">>

\* PROFILE_MAP.get(profile, [])
PROFILE_MAP(profile) ==
    CASE profile = RETAIL ->
           << <<"R","e","t","a","i","l">>,
       <<"I","n","d","i","v","i","d","u","a","l">>,
       <<"P","r","i","v","a","t","e"," ","i","n","v","e","s","t","o","r">>,
       <<"P","r","i","v","a","t","e"," ","I","n","v","e","s","t","o","r">> >>
      [] profile = PROFESSIONAL ->
           << <<"P","r","o","f","e","s","s","i","o","n","a","l">>,
       <<"Q","u","a","l","i","f","i","e","d">>,
       <<"P","r","o","f","e","s","s","i","o","n","a","l"," ","i","n","v","e","s","t","o","r">>,
       <<"P","r","o","f","e","s","s","i","o","n","a","l"," ","I","n","v","e","s","t","o","r">> >>
      [] profile = INSTITUTIONAL ->
           << <<"I","n","s","t","i","t","u","t","i","o","n","a","l">>,
       <<"F","i","n","a","n","c","i","a","l"," ","i","n","t","e","r","m","e","d","i","a","r","y">>,
       <<"I","n","t","e","r","m","e","d","i","a","r","y">>,
       <<"I","n","s","t","i","t","u","t","i","o","n","a","l"," ","I","n","v","e","s","t","o","r">> >>
      [] OTHER -> <<>>

\* the texts of the click that follows a profile selection in resolve_gate
GATE_CONTINUE_TEXTS ==
    << <<"C","o","n","t","i","n","u","e">>,
       <<"E","n","t","e","r">>,
       <<"P","r","o","c","e","e","d">>,
       <<"C","o","n","f","i","r","m">>,
       <<"I"," ","a","g","r","e","e">>,
       <<"A","g","r","e","e">> >>

(***************************************************************************)
(* Program constants: config.py                                            *)
(***************************************************************************)
PDF_LINK_KEYWORDS_PRIORITY ==
    << <<"d","o","w","n","l","o","a","d"," ","f","u","l","l"," ","p","d","f">>,
       <<"d","o","w","n","l","o","a","d"," ","p","d","f">>,
       <<"v","i","e","w"," ","p","d","f">>,
       <<"f","u","l","l"," ","r","e","p","o","r","t">>,
       <<"d","o","w","n","l","o","a","d">> >>

COMPLIANCE_GATE_KEYWORDS ==
    << <<"f","i","n","a","n","c","i","a","l"," ","i","n","t","e","r","m","e","d","i","a","r","y">>,
       <<"p","r","o","f","e","s","s","i","o","n","a","l"," ","i","n","v","e","s","t","o","r">>,
       <<"i","n","s","t","i","t","u","t","i","o","n","a","l">>,
       <<"r","e","t","a","i","l">>,
       <<"a","c","c","r","e","d","i","t","e","d">>,
       <<"q","u","a","l","i","f","i","e","d">>,
       <<"j","u","r","i","s","d","i","c","t","i","o","n">>,
       <<"i"," ","c","e","r","t","i","f","y">>,
       <<"i","n","v","e","s","t","o","r"," ","t","y","p","e">>,
       <<"c","l","i","e","n","t"," ","t","y","p","e">> >>

VARIABLES
    \* ---- collect_candidate_links under test
    hrefs,          \* what eval_on_selector_all("a[href]") gives: [raises, list]
    links,          \* <<"unset">> or <<"ret", list returned>>
    \* ---- configuration
    INVESTOR_PROFILE,
    \* ---- a gate resolver under test
    gate_view,      \* the page it is called on
    gate_out,       \* <<"pending">> or <<resolver, what it returned and did>>
    \* ---- a Download Trigger under test
    trig_view,      \* the page it is called on
    trig_out,       \* <<"pending">> or <<trigger, what it returned and did>>
    \* ---- the run
    pc,             \* the position of the run: in main, or in the running task
    rows,           \* the input tasks
    idx,            \* the position of the loop in rows
    results,        \* the records appended so far
    report,         \* <<"unwritten">> or <<"written", records>>
    browser,        \* the shared session: its state and how often it was opened, closed
    \* ---- the running task
    r,              \* its result
    pages,          \* the pages opened and not yet handed to close()
    opened,         \* the number of pages the task has opened
    p2,             \* the handle of the follow-up / candidate page
    p3,             \* the handle of the deeper page
    sniffer_state,  \* the sniffer state of the task page
    s2,             \* the sniffer state of the candidate page
    candidates,     \* what collect_candidate_links returned
    ci,             \* the position of the loop in candidates
    pending,        \* "return" while finally blocks run for a return
    exc,            \* the exception the handler at the task boundary got
    hist,           \* history of the task, for the properties
    \* ---- the scored fallback under test
    fb_view,        \* the page it is called on
    fb_out,         \* <<"pending">> or <<"ret", candidates kept, what it returned>>
    \* the obstacle handlers and click_by_text called on a page
    ob_view,        \* the page they are called on
    ob_init,        \* the page and the result before the first call
    ob_result,      \* the HarvestResult they are handed
    ob_last,        \* the last call: what it was given, returned and clicked
    \* attach_pdf_sniffer on several pages
    sn_seen,        \* per page, the responses observed so far
    sn_state        \* per page, the state attach_pdf_sniffer returned

collectVars == <<hrefs, links>>
gateVars == <<gate_view, gate_out>>
trigVars == <<trig_view, trig_out>>
taskVars == <<pc, rows, idx, results, report, browser, r, pages, opened, p2, p3,
              sniffer_state, s2, candidates, ci, pending, exc, hist>>
fbVars == <<fb_view, fb_out>>
obVars == <<ob_view, ob_init, ob_result, ob_last>>
snVars == <<sn_seen, sn_state>>
extraVars == <<obVars, snVars>>
vars == <<collectVars, INVESTOR_PROFILE, gateVars, trigVars, taskVars, fbVars, extraVars>>

(***************************************************************************)
(* Each specification below exercises one part of the program; the         *)
(* variables of the other parts rest at these values.                      *)
(***************************************************************************)
IdleCollect == /\ hrefs = [raises |-> FALSE, list |-> <<>>]
               /\ links = <<"unset">>

IdleGate == /\ gate_view = [text |-> <<>>, bodyErr |-> FALSE, elems |-> <<>>,
                            idle |-> TRUE]
            /\ gate_out = <<"pending">>

IdleTrigger == /\ trig_view = [elems |-> <<>>, saveErrs |-> 0]
               /\ trig_out = <<"pending">>

IdleFallback == /\ fb_view = [raises |-> FALSE, links |-> <<>>, saveOk |-> TRUE]
                /\ fb_out = <<"pending">>

IdleObstacles == /\ ob_view = [url |-> <<>>, text |-> <<>>, bodyErr |-> FALSE,
                               elems |-> <<>>]
                 /\ ob_init = <<>>
                 /\ ob_result = <<>>
                 /\ ob_last = [op |-> "none"]

IdleSniffer == /\ sn_seen = <<>>
               /\ sn_state = <<>>

IdleExtra == IdleObstacles /\ IdleSniffer


\* the shared browser session before it is launched
NoBrowser == [state |-> "unopened", opens |-> 0, closes |-> 0]

\* a note of a result: the message and what is formatted into it
Note(msg, arg) == [msg |-> msg, arg |-> arg]

\* attach_pdf_sniffer: the state it returns
attach_pdf_sniffer == [last_pdf_url |-> <<>>]

\* HarvestResult(institution, start_url): status "error", file_path None,
\* notes None
HarvestResult(institution) ==
    [institution |-> institution, status |-> "error", file_path |-> <<>>,
     notes |-> Note("None", <<>>)]

\* what is remembered of the running task for the properties below; steps
\* are the handlers run on the task page, kept until harvest_one goes on to
\* other pages
NewHistory ==
    [gate0 |-> "unset", saved |-> 0, visited |-> <<>>, savedAt |-> 0,
     caught |-> FALSE, escaped |-> FALSE, returned |-> FALSE, steps |-> <<>>]

IdleTask ==
    /\ pc = "idle"
    /\ rows = <<>>
    /\ idx = 0
    /\ results = <<>>
    /\ report = <<"unwritten">>
    /\ browser = NoBrowser
    /\ r = HarvestResult(<<>>)
    /\ pages = {}
    /\ opened = 0
    /\ p2 = 0
    /\ p3 = 0
    /\ sniffer_state = attach_pdf_sniffer
    /\ s2 = attach_pdf_sniffer
    /\ candidates = <<>>
    /\ ci = 0
    /\ pending = "none"
    /\ exc = <<>>
    /\ hist = NewHistory

(***************************************************************************)
(* Text helpers.                                                           *)
(***************************************************************************)
Min(a, b) == IF a < b THEN a ELSE b

Range(s) == { s[i] : i \in 1..Len(s) }

\* sequences over S of length at most n
BSeq(S, n) == UNION { [1..k -> S] : k \in 0..n }

UpperCase ==
    << "A", "B", "C", "D", "E", "F", "G", "H", "I", "J", "K", "L", "M",
       "N", "O", "P", "Q", "R", "S", "T", "U", "V", "W", "X", "Y", "Z" >>

LowerCase ==
    << "a", "b", "c", "d", "e", "f", "g", "h", "i", "j", "k", "l", "m",
       "n", "o", "p", "q", "r", "s", "t", "u", "v", "w", "x", "y", "z" >>

\* the lower-case form of each upper-case letter
LowerOf ==
    [c \in Range(UpperCase) |->
        LowerCase[CHOOSE k \in 1..Len(UpperCase) : UpperCase[k] = c]]

\* str.lower() on one character
LowerChar(c) == IF c \in DOMAIN LowerOf THEN LowerOf[c] ELSE c

\* str.lower()
Lower(s) == [i \in 1..Len(s) |-> LowerChar(s[i])]

\* s.split("?")[0]: the text before the first "?"
BeforeQuery(s) ==
    LET qs == { i \in 1..Len(s) : s[i] = "?" }
    IN  IF qs = {} THEN s
        ELSE SubSeq(s, 1, (CHOOSE i \in qs : \A j \in qs : i <= j) - 1)

\* s.endswith(suf)
EndsWith(s, suf) ==
    /\ Len(suf) <= Len(s)
    /\ SubSeq(s, Len(s) - Len(suf) + 1, Len(s)) = suf

\* sub in s
Contains(s, sub) ==
    \E i \in 0..(Len(s) - Len(sub)) : SubSeq(s, i + 1, i + Len(sub)) = sub

\* list(dict.fromkeys(s)): drop later duplicates, keep first-seen order
RECURSIVE DictFromKeys(_)
DictFromKeys(s) ==
    IF s = <<>> THEN <<>>
    ELSE LET init == DictFromKeys(SubSeq(s, 1, Len(s) - 1))
             last == s[Len(s)]
         IN  IF last \in Range(init) THEN init ELSE Append(init, last)

\* s[:n]
Take(s, n) == SubSeq(s, 1, Min(n, Len(s)))

(***************************************************************************)
(* pdf_harvester.py: is_pdf_url, collect_candidate_links                   *)
(***************************************************************************)
is_pdf_url(url) == EndsWith(Lower(BeforeQuery(url)), <<".","p","d","f">>)

\* any(k in h.lower() for k in keywords)
pdfish(h) == \E k \in 1..Len(keywords) : Contains(Lower(h), keywords[k])

\* the variant a merged (not either/or) collector would compute
CollectMerged(pg) ==
    IF pg.raises THEN <<>>
    ELSE Take(DictFromKeys(SelectSeq(pg.list, LAMBDA h : is_pdf_url(h) \/ pdfish(h))),
              MAX_CANDIDATE_LINKS)

collect_candidate_links(pg) ==
    IF pg.raises THEN <<>>
    ELSE LET pdfs == SelectSeq(pg.list, is_pdf_url)
         IN  IF pdfs # <<>>
             THEN Take(DictFromKeys(pdfs), MAX_CANDIDATE_LINKS)
             ELSE Take(DictFromKeys(SelectSeq(pg.list, pdfish)), MAX_CANDIDATE_LINKS)

(***************************************************************************)
(* SpecCollect: collect_candidate_links on bounded pages.                  *)
(***************************************************************************)
\* "a.pdf", "A.PDF", "a.pdf?x", "b.html", "report", "b?.pdf"
HrefUniverse ==
    { <<"a",".","p","d","f">>,
      <<"A",".","P","D","F">>,
      <<"a",".","p","d","f","?","x">>,
      <<"b",".","h","t","m","l">>,
      <<"r","e","p","o","r","t">>,
      <<"b","?",".","p","d","f">> }

\* more distinct .pdf hrefs ("1.pdf", "2.pdf", ...) than the collector keeps
ManyPdfs == [i \in 1..(MAX_CANDIDATE_LINKS + 2) |-> <<ToString(i), ".","p","d","f">>]

\* more distinct keyword hrefs ("1report", ...) than the collector keeps
ManyReports ==
    [i \in 1..(MAX_CANDIDATE_LINKS + 2) |-> <<ToString(i), "r","e","p","o","r","t">>]

AnchorLists ==
    { pre \o tail : pre \in BSeq(HrefUniverse, MaxAnchors),
                    tail \in {<<>>, ManyPdfs, ManyReports} }
    \cup { tail \o pre : pre \in BSeq(HrefUniverse, MaxAnchors),
                          tail \in {ManyPdfs, ManyReports} }

InitCollect ==
    /\ IdleExtra
    /\ hrefs \in [raises : BOOLEAN, list : AnchorLists]
    /\ links = <<"unset">>
    /\ INVESTOR_PROFILE = UNKNOWN
    /\ IdleGate
    /\ IdleTrigger
    /\ IdleTask
    /\ IdleFallback

Collect ==
    /\ links = <<"unset">>
    /\ links' = <<"ret", collect_candidate_links(hrefs)>>
    /\ UNCHANGED <<hrefs, INVESTOR_PROFILE, gateVars, trigVars, taskVars, fbVars, extraVars>>

NextCollect == Collect

SpecCollect == InitCollect /\ [][NextCollect]_vars

(***************************************************************************)
(* The page as the handlers see it.  A page is the list, in document       *)
(* order, of its interactive elements:                                     *)
(*   role      "button" or "link"                                          *)
(*   name      the accessible name / text, a character sequence            *)
(*   aria      whether the name is given by an aria-label attribute        *)
(*   clickable whether click() on it returns (TRUE) or raises (FALSE)      *)
(*   download  whether a click on it fires a download event                *)
(* together with the rest of the visible text.                             *)
(***************************************************************************)
Elem(role, name, clickable) ==
    [role |-> role, name |-> name, aria |-> FALSE, clickable |-> clickable,
     download |-> FALSE]

\* re.compile(re.escape(t), re.I) searched in a name
NameMatches(t, name) == Contains(Lower(name), Lower(t))

\* page.get_by_role(role, name=re.compile(re.escape(t), re.I)): the matching
\* positions
get_by_role(page, role, t) ==
    { i \in 1..Len(page) : page[i].role = role /\ NameMatches(t, page[i].name) }

\* locator.first
First(S) == CHOOSE i \in S : \A j \in S : i <= j

\* if loc.count() > 0: loc.first.click(...): whether the click returned, and
\* the click attempted (by: the text or selector that found the element)
TryClick(page, matches, by) ==
    IF matches = {} THEN [ok |-> FALSE, clicks |-> <<>>]
    ELSE LET e == page[First(matches)]
         IN  [ok |-> e.clickable,
              clicks |-> << [name |-> e.name, by |-> by, ok |-> e.clickable,
                             download |-> e.download] >>]

\* click_by_text without its two `return True`: every candidate is tried
RECURSIVE click_by_text_continuing(_, _)
click_by_text_continuing(page, texts) ==
    IF texts = <<>> THEN [ret |-> FALSE, clicks |-> <<>>]
    ELSE LET t == Head(texts)
             b == TryClick(page, get_by_role(page, "button", t), t)
             l == TryClick(page, get_by_role(page, "link", t), t)
             rest == click_by_text_continuing(page, Tail(texts))
         IN  [ret |-> b.ok \/ l.ok \/ rest.ret,
              clicks |-> b.clicks \o l.clicks \o rest.clicks]

\* click_by_text returning False at the first click that fails
RECURSIVE click_by_text_giving_up(_, _)
click_by_text_giving_up(page, texts) ==
    IF texts = <<>> THEN [ret |-> FALSE, clicks |-> <<>>]
    ELSE LET t == Head(texts)
             b == TryClick(page, get_by_role(page, "button", t), t)
         IN  IF b.clicks # <<>> THEN [ret |-> b.ok, clicks |-> b.clicks]
             ELSE LET l == TryClick(page, get_by_role(page, "link", t), t)
                  IN  IF l.clicks # <<>> THEN [ret |-> l.ok, clicks |-> l.clicks]
                      ELSE click_by_text_giving_up(page, Tail(texts))

\* click_by_text: [ret, clicks]; an exception of a click is swallowed and the
\* loop goes on
RECURSIVE click_by_text(_, _)
click_by_text(page, texts) ==
    IF texts = <<>> THEN [ret |-> FALSE, clicks |-> <<>>]
    ELSE LET t == Head(texts)
             b == TryClick(page, get_by_role(page, "button", t), t)
         IN  IF b.ok THEN [ret |-> TRUE, clicks |-> b.clicks]
             ELSE LET l == TryClick(page, get_by_role(page, "link", t), t)
                  IN  IF l.ok THEN [ret |-> TRUE, clicks |-> b.clicks \o l.clicks]
                      ELSE LET rest == click_by_text(page, Tail(texts))
                           IN  [ret |-> rest.ret,
                                clicks |-> b.clicks \o l.clicks \o rest.clicks]

\* an entry of result.actions
Tag(t) == [tag |-> t, arg |-> <<>>]
TagOf(t, arg) == [tag |-> t, arg |-> arg]

\* handle_cookies appending whatever click_by_text returned
handle_cookies_always(page) ==
    [actions |-> <<Tag("accepted_cookies")>>,
     clicks  |-> click_by_text(page, COOKIE_TEXTS).clicks]

\* handle_cookies: what it appends to result.actions, and its clicks
handle_cookies(page) ==
    LET c == click_by_text(page, COOKIE_TEXTS)
    IN  [actions |-> IF c.ret THEN <<Tag("accepted_cookies")>> ELSE <<>>,
         clicks  |-> c.clicks]

\* page.locator(sel) for the close-icon selectors
SelMatches(sel, e) ==
    CASE sel = "aria_Close" -> e.role = "button" /\ e.aria /\ e.name = <<"C","l","o","s","e">>
      [] sel = "aria_close" -> e.role = "button" /\ e.aria /\ e.name = <<"c","l","o","s","e">>
      [] OTHER -> e.role = "button" /\ NameMatches(ICON_TEXT, e.name)

\* the selector loop of close_modals: the first selector whose click returns
\* ends it
RECURSIVE CloseIcons(_, _)
CloseIcons(page, sels) ==
    IF sels = <<>> THEN [actions |-> <<>>, clicks |-> <<>>]
    ELSE LET m == { i \in 1..Len(page) : SelMatches(Head(sels), page[i]) }
             c == TryClick(page, m, <<Head(sels)>>)
         IN  IF c.ok THEN [actions |-> <<Tag("closed_modal_x")>>, clicks |-> c.clicks]
             ELSE LET rest == CloseIcons(page, Tail(sels))
                  IN  [actions |-> rest.actions, clicks |-> c.clicks \o rest.clicks]

\* close_modals
close_modals(page) ==
    LET c == click_by_text(page, CLOSE_TEXTS)
        x == CloseIcons(page, CLOSE_ICON_SELECTORS)
    IN  [actions |-> (IF c.ret THEN <<Tag("closed_modal")>> ELSE <<>>) \o x.actions,
         clicks  |-> c.clicks \o x.clicks]

(***************************************************************************)
(* Gate resolution.  A view v of the page: text (the visible text besides  *)
(* the elements), bodyErr (reading the page text raises), elems, idle      *)
(* (wait_for_load_state returns).                                          *)
(***************************************************************************)
RECURSIVE ElemText(_)
ElemText(page) ==
    IF page = <<>> THEN <<>> ELSE <<" ">> \o Head(page).name \o ElemText(Tail(page))

\* body_text: page.inner_text("body"), "" when it raises
body_text(v) == IF v.bodyErr THEN <<>> ELSE v.text \o ElemText(v.elems)

\* contains_any
contains_any(text, hints) ==
    LET t == Lower(text)
    IN  \E k \in 1..Len(hints) : Contains(t, Lower(hints[k]))

detect_gate(v) == contains_any(body_text(v), GATE_HINTS)

\* a resolver that offers the first mapped profile when none is configured
resolve_gate_guessing(profile, v) ==
    IF ~detect_gate(v)
    THEN [handled |-> TRUE, note |-> Note("no_gate", <<>>), actions |-> <<>>,
          clicks |-> <<>>]
    ELSE LET p == IF profile = UNKNOWN THEN RETAIL ELSE profile
             c == click_by_text(v.elems, PROFILE_MAP(p))
         IN  [handled |-> c.ret, note |-> Note("guessed", p),
              actions |-> <<Tag("gate_detected")>>, clicks |-> c.clicks]

\* a resolver that reports the gate handled whether or not its click returned
resolve_gate_optimistic(profile, v) ==
    IF ~detect_gate(v)
    THEN [handled |-> TRUE, note |-> Note("no_gate", <<>>), actions |-> <<>>,
          clicks |-> <<>>]
    ELSE IF profile = UNKNOWN
    THEN [handled |-> FALSE, note |-> Note("manual", profile),
          actions |-> <<Tag("gate_detected")>>, clicks |-> <<>>]
    ELSE LET c == click_by_text(v.elems, PROFILE_MAP(profile))
         IN  [handled |-> TRUE, note |-> Note("handled", profile),
              actions |-> <<Tag("gate_detected")>>, clicks |-> c.clicks]

\* resolve_gate: (handled, note), what it appends to result.actions, and its
\* clicks
resolve_gate(profile, v) ==
    IF ~detect_gate(v)
    THEN [handled |-> TRUE, note |-> Note("no_gate", <<>>), actions |-> <<>>,
          clicks |-> <<>>]
    ELSE IF profile = UNKNOWN
    THEN [handled |-> FALSE,
          note |-> Note("Gate detected; profile=unknown => manual required.", <<>>),
          actions |-> <<Tag("gate_detected")>>, clicks |-> <<>>]
    ELSE IF PROFILE_MAP(profile) = <<>>
    THEN [handled |-> FALSE,
          note |-> Note("Gate detected; no mapping for profile=", profile),
          actions |-> <<Tag("gate_detected")>>, clicks |-> <<>>]
    ELSE LET c == click_by_text(v.elems, PROFILE_MAP(profile))
         IN  IF c.ret
             THEN LET ck == handle_cookies(v.elems)
                      cm == close_modals(v.elems)
                      cc == click_by_text(v.elems, GATE_CONTINUE_TEXTS)
                  IN  [handled |-> TRUE,
                       note |-> Note("Gate handled using profile=", profile),
                       actions |-> <<Tag("gate_detected"),
                                     TagOf("gate_selected_", profile)>>
                                   \o ck.actions \o cm.actions
                                   \o <<Tag("gate_continued")>>,
                       clicks |-> c.clicks \o ck.clicks \o cm.clicks \o cc.clicks]
             ELSE [handled |-> FALSE,
                   note |-> Note("Gate detected; could not find clickable option for profile=",
                                 profile),
                   actions |-> <<Tag("gate_detected")>>, clicks |-> c.clicks]

\* harvester.py: the positions a selector text=/<t>/i matches
TextSelector(page, t) == { i \in 1..Len(page) : NameMatches(t, page[i].name) }

\* PdfHarvester._check_compliance_gate: "none", "gate_passed",
\* "manual_required", or "raise" when page.content() raises (not caught
\* there); and its clicks
_check_compliance_gate(profile, v) ==
    IF v.bodyErr THEN [ret |-> "raise", clicks |-> <<>>]
    ELSE LET content == Lower(v.text \o ElemText(v.elems))
             found_gate == \E k \in 1..Len(COMPLIANCE_GATE_KEYWORDS) :
                               Contains(content, COMPLIANCE_GATE_KEYWORDS[k])
         IN  IF ~found_gate THEN [ret |-> "none", clicks |-> <<>>]
             ELSE IF profile = UNKNOWN THEN [ret |-> "manual_required", clicks |-> <<>>]
             ELSE LET c == TryClick(v.elems, TextSelector(v.elems, profile), profile)
                  IN  [ret |-> IF c.ok /\ v.idle THEN "gate_passed" ELSE "manual_required",
                       clicks |-> c.clicks]

(***************************************************************************)
(* SpecGate: the two gate resolvers on bounded pages, under every          *)
(* configured profile.                                                     *)
(***************************************************************************)
\* the profile names of the configuration, and one that has no mapping
Profiles == {UNKNOWN, RETAIL, PROFESSIONAL, INSTITUTIONAL, <<"c","o","r","p","o","r","a","t","e">>}

\* the elements a modelled gate page can hold
GateElems ==
    { Elem("button", <<"R","e","t","a","i","l">>, TRUE),
      Elem("button", <<"R","e","t","a","i","l">>, FALSE),
      Elem("link",   <<"R","e","t","a","i","l">>, TRUE),
      Elem("button", <<"P","r","o","f","e","s","s","i","o","n","a","l"," ","I","n","v","e","s","t","o","r">>, TRUE),
      Elem("button", <<"P","r","o","f","e","s","s","i","o","n","a","l"," ","I","n","v","e","s","t","o","r">>, FALSE),
      Elem("link",   <<"P","r","o","f","e","s","s","i","o","n","a","l"," ","I","n","v","e","s","t","o","r">>, TRUE),
      Elem("button", <<"A","c","c","e","p","t"," ","a","l","l">>, TRUE),
      Elem("button", <<"C","o","n","t","i","n","u","e">>, TRUE),
      Elem("link",   <<"C","o","n","t","i","n","u","e">>, FALSE) }

\* the text of a modelled page besides its elements: "Welcome", "I Certify"
GateTexts == { <<"W","e","l","c","o","m","e">>, <<"I"," ","C","e","r","t","i","f","y">> }

GateViews ==
    [text : GateTexts, bodyErr : BOOLEAN, elems : BSeq(GateElems, MaxElems),
     idle : BOOLEAN]

InitGate ==
    /\ IdleExtra
    /\ INVESTOR_PROFILE \in Profiles
    /\ gate_view \in GateViews
    /\ gate_out = <<"pending">>
    /\ IdleCollect
    /\ IdleTrigger
    /\ IdleTask
    /\ IdleFallback

\* a call of resolve_gate (pdf_harvester.py)
ResolveGate ==
    /\ gate_out = <<"pending">>
    /\ gate_out' = <<"resolve_gate", resolve_gate(INVESTOR_PROFILE, gate_view)>>
    /\ UNCHANGED <<INVESTOR_PROFILE, gate_view, collectVars, trigVars, taskVars, fbVars, extraVars>>

\* a call of PdfHarvester._check_compliance_gate (harvester.py)
CheckComplianceGate ==
    /\ gate_out = <<"pending">>
    /\ gate_out' = <<"_check_compliance_gate",
                     _check_compliance_gate(INVESTOR_PROFILE, gate_view)>>
    /\ UNCHANGED <<INVESTOR_PROFILE, gate_view, collectVars, trigVars, taskVars, fbVars, extraVars>>

NextGate == ResolveGate \/ CheckComplianceGate

SpecGate == InitGate /\ [][NextGate]_vars

(***************************************************************************)
(* The Download Trigger.  A view v of the page: elems, and saveErrs, the   *)
(* number of save_as calls that raise before one returns.                  *)
(***************************************************************************)
\* DOWNLOAD_DIR / safe_filename(institution), as a non-empty value; None is <<>>
PathOf(institution) == <<"downloads", institution>>

\* try_download_event, from the hint list onwards: out (the path or <<>>),
\* saved (files written), what it appends to result.actions, its clicks, and
\* log: per hint tried, whether the click happened, the download event fired
\* and the file was saved
RECURSIVE TryHints(_, _, _, _)
TryHints(v, hints, saveErrs, institution) ==
    IF hints = <<>>
    THEN [out |-> <<>>, saved |-> 0, actions |-> <<>>, clicks |-> <<>>, log |-> <<>>]
    ELSE LET hint  == Head(hints)
             c     == click_by_text(v.elems, <<hint>>)
             fired == c.ret /\ c.clicks[Len(c.clicks)].download
             saves == fired /\ saveErrs = 0
             entry == [hint |-> hint, clicked |-> c.ret, fired |-> fired,
                       saved |-> saves]
         IN  IF saves
             THEN [out |-> PathOf(institution), saved |-> 1,
                   actions |-> <<TagOf("downloaded_via_click:", hint)>>,
                   clicks |-> c.clicks, log |-> <<entry>>]
             ELSE LET rest == TryHints(v, Tail(hints),
                                       IF fired THEN saveErrs - 1 ELSE saveErrs,
                                       institution)
                  IN  [out |-> rest.out, saved |-> rest.saved,
                       actions |-> rest.actions,
                       clicks |-> c.clicks \o rest.clicks,
                       log |-> <<entry>> \o rest.log]

\* try_download_event
try_download_event(v, institution) ==
    TryHints(v, DOWNLOAD_HINTS, v.saveErrs, institution)

\* the names harvester.py binds at module level (its imports and its class)
HarvesterGlobals ==
    {"time", "logging", "sync_playwright", "PlaywrightTimeoutError", "config",
     "utils", "PdfHarvester"}

\* PdfHarvester._save_download: os.path.join raises NameError unless the
\* module binds os, save_as may raise; either is caught and gives False.
\* ret, saved (files written) and upd, the fields it sets in result
_save_download(saveOk, institution) ==
    IF "os" \in HarvesterGlobals /\ saveOk
    THEN [ret |-> TRUE, saved |-> 1,
          upd |-> [status |-> "downloaded", file_path |-> PathOf(institution),
                   notes |-> Note("Successfully downloaded PDF.", <<>>)]]
    ELSE [ret |-> FALSE, saved |-> 0, upd |-> <<>>]

\* PdfHarvester._try_download_buttons, from the keyword list onwards: only
\* the first match of a keyword is reached (a click that raises or brings no
\* download leaves the element loop through the except clauses)
RECURSIVE TryKeywords(_, _, _)
TryKeywords(v, kws, institution) ==
    IF kws = <<>>
    THEN [ret |-> FALSE, saved |-> 0, upd |-> <<>>, clicks |-> <<>>, log |-> <<>>]
    ELSE LET keyword == Head(kws)
             c     == TryClick(v.elems, TextSelector(v.elems, keyword), keyword)
             fired == c.ok /\ c.clicks[1].download
             sv    == _save_download(v.saveErrs = 0, institution)
             entry == [hint |-> keyword, clicked |-> c.ok, fired |-> fired,
                       saved |-> fired /\ sv.ret]
         IN  IF fired
             THEN [ret |-> sv.ret, saved |-> sv.saved, upd |-> sv.upd,
                   clicks |-> c.clicks, log |-> <<entry>>]
             ELSE LET rest == TryKeywords(v, Tail(kws), institution)
                  IN  [ret |-> rest.ret, saved |-> rest.saved, upd |-> rest.upd,
                       clicks |-> c.clicks \o rest.clicks,
                       log |-> <<entry>> \o rest.log]

_try_download_buttons(v, institution) ==
    TryKeywords(v, PDF_LINK_KEYWORDS_PRIORITY, institution)

(***************************************************************************)
(* SpecTrigger: the two Download Triggers on bounded pages.                *)
(***************************************************************************)
DlElem(role, name, clickable, download) ==
    [role |-> role, name |-> name, aria |-> FALSE, clickable |-> clickable,
     download |-> download]

\* the elements a modelled download page can hold
TrigElems ==
    { DlElem("button", <<"D","o","w","n","l","o","a","d"," ","P","D","F">>, TRUE, TRUE),
      DlElem("button", <<"D","o","w","n","l","o","a","d"," ","P","D","F">>, TRUE, FALSE),
      DlElem("button", <<"D","o","w","n","l","o","a","d"," ","P","D","F">>, FALSE, FALSE),
      DlElem("link",   <<"F","u","l","l"," ","r","e","p","o","r","t">>, TRUE, TRUE),
      DlElem("link",   <<"F","u","l","l"," ","r","e","p","o","r","t">>, TRUE, FALSE),
      DlElem("link",   <<"P","D","F">>, TRUE, TRUE),
      DlElem("button", <<"D","o","w","n","l","o","a","d"," ","f","u","l","l"," ","P","D","F">>, TRUE, FALSE) }

TrigViews == [elems : BSeq(TrigElems, MaxElems), saveErrs : 0..MaxSaveErrs]

\* the institution of the task under test
ACME == <<"A","c","m","e"," ","C","a","p","i","t","a","l">>

InitTrigger ==
    /\ IdleExtra
    /\ trig_view \in TrigViews
    /\ trig_out = <<"pending">>
    /\ INVESTOR_PROFILE = UNKNOWN
    /\ IdleCollect
    /\ IdleGate
    /\ IdleTask
    /\ IdleFallback

\* a call of try_download_event (pdf_harvester.py)
TryDownloadEvent ==
    /\ trig_out = <<"pending">>
    /\ trig_out' = <<"try_download_event", try_download_event(trig_view, ACME)>>
    /\ UNCHANGED <<trig_view, INVESTOR_PROFILE, collectVars, gateVars, taskVars, fbVars, extraVars>>

\* a call of PdfHarvester._try_download_buttons (harvester.py)
TryDownloadButtons ==
    /\ trig_out = <<"pending">>
    /\ trig_out' = <<"_try_download_buttons", _try_download_buttons(trig_view, ACME)>>
    /\ UNCHANGED <<trig_view, INVESTOR_PROFILE, collectVars, gateVars, taskVars, fbVars, extraVars>>

NextTrigger == TryDownloadEvent \/ TryDownloadButtons

SpecTrigger == InitTrigger /\ [][NextTrigger]_vars

(***************************************************************************)
(* The run loop and one task.  The handlers above decide what a step does; *)
(* the page each of them meets is the environment's choice, so a step      *)
(* draws the handler's result from the results the handler gives over the  *)
(* bounded pages.  result.actions is not carried here (the handler         *)
(* operators above give what each call appends).                           *)
(***************************************************************************)
\* the profiles a run is configured with
RunProfiles == {UNKNOWN, PROFESSIONAL}

\* what resolve_gate can return under each profile
GateResults ==
    [p \in RunProfiles |->
        { LET g == resolve_gate(p, v) IN [handled |-> g.handled, note |-> g.note] :
              v \in GateViews }]

\* URLS: the institutions of the tasks
Institution(i) == <<"I", ToString(i)>>

\* what try_download_event can return for each task, with the files it saved
TrigResults ==
    [inst \in { Institution(i) : i \in 1..MaxTasks } |->
        { LET t == try_download_event(v, inst)
          IN  [out |-> t.out, saved |-> t.saved, clicked |-> t.clicks # <<>>] :
              v \in TrigViews }]

\* the entry of hist.steps for a run of a Download Trigger on the task page
TrigStep(t) == IF t.clicked THEN "trigger_click" ELSE "trigger_idle"

\* a network response: its content-type and content-disposition headers and
\* its url
HTML_RESPONSE == [ct |-> <<"t","e","x","t","/","h","t","m","l">>, cd |-> <<>>, url |-> <<"h","t","t","p","s",":","/","/","e",".","o","r","g","/","o">>]
PDF_RESPONSE == [ct |-> <<"A","p","p","l","i","c","a","t","i","o","n","/","P","D","F">>, cd |-> <<>>, url |-> <<"h","t","t","p","s",":","/","/","e",".","o","r","g","/","v">>]
ATTACHMENT_RESPONSE ==
    [ct |-> <<"a","p","p","l","i","c","a","t","i","o","n","/","o","c","t","e","t","-","s","t","r","e","a","m">>, cd |-> <<"a","t","t","a","c","h","m","e","n","t",";"," ","f","i","l","e","n","a","m","e","=","\"","o",".","P","D","F","\"">>,
     url |-> <<"h","t","t","p","s",":","/","/","e",".","o","r","g","/","d">>]

Responses == {HTML_RESPONSE, PDF_RESPONSE, ATTACHMENT_RESPONSE}

\* on_response keeping the first PDF address it saw
on_response_first_wins(state, resp) ==
    IF /\ state.last_pdf_url = <<>>
       /\ \/ Contains(Lower(resp.ct), <<"a","p","p","l","i","c","a","t","i","o","n","/","p","d","f">>)
          \/ Contains(Lower(resp.cd), <<".","p","d","f">>)
    THEN [last_pdf_url |-> resp.url]
    ELSE state

\* on_response of attach_pdf_sniffer: the sniffer state after a response
on_response(state, resp) ==
    IF \/ Contains(Lower(resp.ct), <<"a","p","p","l","i","c","a","t","i","o","n","/","p","d","f">>)
       \/ Contains(Lower(resp.cd), <<".","p","d","f">>)
    THEN [last_pdf_url |-> resp.url]
    ELSE state

\* the sniffer states a browser call can leave, from state s: no response,
\* or one of Responses
Sniffed(s) == {s} \cup { on_response(s, resp) : resp \in Responses }

\* an exception raised by a call into the browser at a site
Exc(site) == <<"Error", site>>

\* the addresses a task page can end on
PageUrls == { <<"h","t","t","p","s",":","/","/","e",".","o","r","g","/","o">>, <<"h","t","t","p","s",":","/","/","e",".","o","r","g","/","o",".","P","D","F","?","v","=","1">> }

\* the pages collect_candidate_links meets in a task: up to MaxCands
\* distinct .pdf hrefs, or a failing evaluation
TaskAnchors ==
    { [raises |-> FALSE, list |-> SubSeq(ManyPdfs, 1, k)] : k \in 0..MaxCands }
    \cup { [raises |-> TRUE, list |-> <<>>] }

\* URLS: the first n tasks of the run
URLS(n) == [i \in 1..n |-> [institution |-> Institution(i), url |-> <<"h","t","t","p","s",":","/","/","e",".","o","r","g","/","o">>]]

Init ==
    /\ IdleExtra
    /\ INVESTOR_PROFILE \in RunProfiles
    /\ \E n \in 1..MaxTasks : rows = URLS(n)
    /\ pc = "ensure"
    /\ idx = 0
    /\ results = <<>>
    /\ report = <<"unwritten">>
    /\ browser = NoBrowser
    /\ r = HarvestResult(<<>>)
    /\ pages = {}
    /\ opened = 0
    /\ p2 = 0
    /\ p3 = 0
    /\ sniffer_state = attach_pdf_sniffer
    /\ s2 = attach_pdf_sniffer
    /\ candidates = <<>>
    /\ ci = 0
    /\ pending = "none"
    /\ exc = <<>>
    /\ hist = NewHistory
    /\ IdleCollect
    /\ IdleGate
    /\ IdleTrigger
    /\ IdleFallback

unitVars == <<INVESTOR_PROFILE, collectVars, gateVars, trigVars, fbVars, extraVars>>
runVars == <<rows, idx, results, report, browser>>
pageVars == <<pages, opened, p2, p3>>
sniffVars == <<sniffer_state, s2>>
candVars == <<candidates, ci>>

\* the task page is handle 1
page == 1

\* page.close() and its like: the handle is released whether or not the
\* call then raises
ClosePage(open, p) == open \ {p}

\* r.status = "downloaded"; r.file_path = str(out)
Downloaded(res, out) == [res EXCEPT !.status = "downloaded", !.file_path = out]

\* chromium.launch
LaunchBrowser(b) == [b EXCEPT !.state = "open", !.opens = @ + 1]

\* browser.close(): the session is closed once the call is made
CloseBrowser(b) ==
    IF b.state = "open" THEN [b EXCEPT !.state = "closed", !.closes = @ + 1] ELSE b

\* playwright.stop(), also at the exit of `with sync_playwright()`: the
\* driver ends and a browser still open ends with it
StopPlaywright(b) == CloseBrowser(b)

\* the positions inside harvest_one
TaskPcs ==
    {"goto", "obstacles", "gate", "shot_manual", "direct", "click", "sniffed",
     "sn_visit", "sn_close", "collect", "cand_open", "cand_visit", "p3_open",
     "p3_visit", "p3_close", "cand_close", "not_found", "except", "finally"}

\* main, lines 472-476: ensure_playwright_browsers (lines 13-45) probes
\* with a browser of its own, or installs; main returns when it fails
EnsureBrowsers ==
    /\ pc = "ensure"
    /\ \/ pc' = "launch"
       \/ pc' = "no_browser"
    /\ UNCHANGED <<runVars, r, pageVars, sniffVars, candVars, pending, exc, hist,
                   unitVars>>

\* main, lines 478-488: inside `with sync_playwright()`, launch the
\* browser and open the context; either call may raise
Launch ==
    /\ pc = "launch"
    /\ \/ /\ browser' = LaunchBrowser(browser)
          /\ results' = <<>>
          /\ idx' = 1
          /\ pc' = "loop"
       \/ /\ browser' = LaunchBrowser(browser)
          /\ pc' = "unwind"
          /\ UNCHANGED <<results, idx>>
       \/ /\ pc' = "unwind"
          /\ UNCHANGED <<browser, results, idx>>
    /\ UNCHANGED <<rows, report, r, pageVars, sniffVars, candVars, pending, exc, hist,
                   unitVars>>

\* KeyboardInterrupt during a task: no handler of harvest_one catches it
\* (they catch Exception), the finally blocks close the pages, and it
\* leaves harvest_one, whose locals are gone with it, and the loop of main
Interrupt ==
    /\ pc \in TaskPcs
    /\ pages' = {}
    /\ opened' = 0
    /\ p2' = 0
    /\ p3' = 0
    /\ r' = HarvestResult(<<>>)
    /\ sniffer_state' = attach_pdf_sniffer
    /\ s2' = attach_pdf_sniffer
    /\ candidates' = <<>>
    /\ ci' = 0
    /\ exc' = <<>>
    /\ hist' = NewHistory
    /\ pending' = "interrupt"
    /\ pc' = "unwind"
    /\ UNCHANGED <<runVars, unitVars>>

\* main, line 492 and harvest_one, lines 305-308: the next task starts;
\* context.new_page() stands before the try and its exception leaves
\* harvest_one and main
StartTask ==
    /\ pc = "loop"
    /\ idx <= Len(rows)
    /\ r' = HarvestResult(rows[idx].institution)
    /\ sniffer_state' = attach_pdf_sniffer
    /\ s2' = attach_pdf_sniffer
    /\ candidates' = <<>>
    /\ ci' = 0
    /\ pending' = "none"
    /\ exc' = <<>>
    /\ hist' = NewHistory
    /\ p2' = 0
    /\ p3' = 0
    /\ \/ /\ pages' = pages \cup {page}
          /\ opened' = 1
          /\ pc' = "goto"
       \/ /\ UNCHANGED pages
          /\ opened' = 0
          /\ pc' = "unwind"
    /\ UNCHANGED <<runVars, unitVars>>

\* harvest_one, lines 311-312: page.goto; responses reach the sniffer
Goto ==
    /\ pc = "goto"
    /\ \E s \in Sniffed(sniffer_state) : sniffer_state' = s
    /\ \/ /\ pc' = "obstacles"
          /\ UNCHANGED <<exc, hist>>
       \/ /\ pc' = "except"
          /\ exc' = Exc("goto")
          /\ hist' = [hist EXCEPT !.caught = TRUE]
    /\ UNCHANGED <<runVars, r, pageVars, s2, candVars, pending, unitVars>>

\* harvest_one, lines 314-326: handle_linkedin_interstitial, the scroll,
\* handle_cookies, close_modals; none of them raises or touches status
Obstacles ==
    /\ pc = "obstacles"
    /\ pc' = "gate"
    /\ hist' = [hist EXCEPT !.steps = Append(@, "obstacles")]
    /\ UNCHANGED <<runVars, r, pageVars, sniffVars, candVars, pending, exc, unitVars>>

\* harvest_one, lines 328-332: resolve_gate on the task page
Gate ==
    /\ pc = "gate"
    /\ \E g \in GateResults[INVESTOR_PROFILE] :
          IF g.handled
          THEN /\ pc' = "direct"
               /\ hist' = [hist EXCEPT !.gate0 = "handled", !.steps = Append(@, "gate")]
               /\ UNCHANGED r
          ELSE /\ pc' = "shot_manual"
               /\ hist' = [hist EXCEPT !.gate0 = "manual", !.steps = Append(@, "gate")]
               /\ r' = [r EXCEPT !.status = "manual_required", !.notes = g.note]
    /\ UNCHANGED <<runVars, pageVars, sniffVars, candVars, pending, exc, unitVars>>

\* harvest_one, lines 333-334: the screenshot of the gate page, then return r
ShotManual ==
    /\ pc = "shot_manual"
    /\ \/ /\ pending' = "return"
          /\ pc' = "finally"
          /\ UNCHANGED <<exc, hist>>
       \/ /\ pc' = "except"
          /\ exc' = Exc("screenshot")
          /\ hist' = [hist EXCEPT !.caught = TRUE]
          /\ UNCHANGED pending
    /\ UNCHANGED <<runVars, r, pageVars, sniffVars, candVars, unitVars>>

\* harvest_one, lines 337-343: the page is a PDF address or a PDF response
\* was sniffed: try_download_event at once
Direct ==
    /\ pc = "direct"
    /\ \E url \in PageUrls, t \in TrigResults[r.institution] :
          IF is_pdf_url(url) \/ sniffer_state.last_pdf_url # <<>>
          THEN /\ hist' = [hist EXCEPT !.saved = @ + t.saved,
                                      !.steps = Append(@, TrigStep(t))]
               /\ IF t.out # <<>>
                  THEN /\ r' = Downloaded(r, t.out)
                       /\ pending' = "return"
                       /\ pc' = "finally"
                  ELSE /\ pc' = "click"
                       /\ UNCHANGED <<r, pending>>
          ELSE /\ pc' = "click"
               /\ UNCHANGED <<r, pending, hist>>
    /\ UNCHANGED <<runVars, pageVars, sniffVars, candVars, exc, unitVars>>

\* harvest_one, lines 346-351: try_download_event; its clicks may bring
\* responses to the sniffer
Click ==
    /\ pc = "click"
    /\ \E s \in Sniffed(sniffer_state) : sniffer_state' = s
    /\ \E t \in TrigResults[r.institution] :
          /\ hist' = [hist EXCEPT !.saved = @ + t.saved,
                                      !.steps = Append(@, TrigStep(t))]
          /\ IF t.out # <<>>
             THEN /\ r' = Downloaded(r, t.out)
                  /\ pending' = "return"
                  /\ pc' = "finally"
             ELSE /\ pc' = "sniffed"
                  /\ UNCHANGED <<r, pending>>
    /\ UNCHANGED <<runVars, pageVars, s2, candVars, exc, unitVars>>

\* harvest_one, lines 354-357: a sniffed PDF address is opened in a new page
SniffedOpen ==
    /\ pc = "sniffed"
    /\ IF sniffer_state.last_pdf_url # <<>>
       THEN \/ /\ p2' = opened + 1
               /\ opened' = opened + 1
               /\ pages' = pages \cup {opened + 1}
               /\ pc' = "sn_visit"
               /\ hist' = [hist EXCEPT !.steps = <<>>]
               /\ UNCHANGED exc
            \/ /\ pc' = "except"
               /\ exc' = Exc("new_page")
               /\ hist' = [hist EXCEPT !.caught = TRUE, !.steps = <<>>]
               /\ UNCHANGED <<pages, opened, p2>>
       ELSE /\ pc' = "collect"
            /\ hist' = [hist EXCEPT !.steps = <<>>]
            /\ UNCHANGED <<pages, opened, p2, exc>>
    /\ UNCHANGED <<runVars, r, p3, sniffVars, candVars, pending, unitVars>>

\* harvest_one, lines 358-368: p2.goto and try_download_event there; an
\* exception is passed over
SniffedVisit ==
    /\ pc = "sn_visit"
    /\ \/ UNCHANGED <<r, pending, hist>>
       \/ \E t \in TrigResults[r.institution] :
             /\ hist' = [hist EXCEPT !.saved = @ + t.saved]
             /\ IF t.out # <<>>
                THEN /\ r' = Downloaded(r, t.out)
                     /\ pending' = "return"
                ELSE UNCHANGED <<r, pending>>
    /\ pc' = "sn_close"
    /\ UNCHANGED <<runVars, pageVars, sniffVars, candVars, exc, unitVars>>

\* harvest_one, lines 369-370: finally p2.close(); an exception of it
\* replaces the pending return and reaches the handler of line 422
SniffedClose ==
    /\ pc = "sn_close"
    /\ pages' = ClosePage(pages, p2)
    /\ \/ /\ pc' = IF pending = "return" THEN "finally" ELSE "collect"
          /\ UNCHANGED <<pending, exc, hist>>
       \/ /\ pc' = "except"
          /\ pending' = "none"
          /\ exc' = Exc("close")
          /\ hist' = [hist EXCEPT !.caught = TRUE]
    /\ UNCHANGED <<runVars, r, opened, p2, p3, sniffVars, candVars, unitVars>>

\* harvest_one, line 373: collect_candidate_links(page)
CollectCandidates ==
    /\ pc = "collect"
    /\ \E pg \in TaskAnchors : candidates' = collect_candidate_links(pg)
    /\ ci' = 1
    /\ pc' = "cand_open"
    /\ UNCHANGED <<runVars, r, pageVars, sniffVars, pending, exc, hist, unitVars>>

\* harvest_one, lines 374-376: the loop head and context.new_page() for the
\* candidate, which stands before the inner try
CandOpen ==
    /\ pc = "cand_open"
    /\ IF ci > Len(candidates)
       THEN /\ pc' = "not_found"
            /\ UNCHANGED <<pages, opened, p2, s2, exc, hist>>
       ELSE \/ /\ p2' = opened + 1
               /\ opened' = opened + 1
               /\ pages' = pages \cup {opened + 1}
               /\ s2' = attach_pdf_sniffer
               /\ pc' = "cand_visit"
               /\ UNCHANGED <<exc, hist>>
            \/ /\ pc' = "except"
               /\ exc' = Exc("new_page")
               /\ hist' = [hist EXCEPT !.caught = TRUE]
               /\ UNCHANGED <<pages, opened, p2, s2>>
    /\ UNCHANGED <<runVars, r, p3, sniffer_state, candVars, pending, unitVars>>

\* harvest_one, lines 378-394: p2.goto(cand), handle_cookies, close_modals,
\* resolve_gate (not handled: continue), try_download_event, the test of
\* s2["last_pdf_url"]; an exception of p2.goto is passed over at line 410
CandVisit ==
    /\ pc = "cand_visit"
    /\ \/ /\ pc' = "cand_close"
          /\ hist' = [hist EXCEPT !.visited = Append(@, ci)]
          /\ UNCHANGED <<r, pending, s2>>
       \/ \E g \in GateResults[INVESTOR_PROFILE], t \in TrigResults[r.institution],
             s \in Sniffed(s2) :
             /\ s2' = s
             /\ IF ~g.handled
                THEN /\ pc' = "cand_close"
                     /\ hist' = [hist EXCEPT !.visited = Append(@, ci)]
                     /\ UNCHANGED <<r, pending>>
                ELSE /\ hist' = [hist EXCEPT !.visited = Append(@, ci),
                                       !.saved = @ + t.saved,
                                       !.savedAt = IF @ = 0 /\ t.saved > 0 THEN ci ELSE @]
                     /\ IF t.out # <<>>
                        THEN /\ r' = Downloaded(r, t.out)
                             /\ pending' = "return"
                             /\ pc' = "cand_close"
                        ELSE /\ pc' = IF s.last_pdf_url # <<>> THEN "p3_open"
                                                               ELSE "cand_close"
                             /\ UNCHANGED <<r, pending>>
    /\ UNCHANGED <<runVars, pageVars, sniffer_state, candVars, exc, unitVars>>

\* harvest_one, line 395: context.new_page() for the sniffed address of the
\* candidate page; its exception is passed over at line 410
P3Open ==
    /\ pc = "p3_open"
    /\ \/ /\ p3' = opened + 1
          /\ opened' = opened + 1
          /\ pages' = pages \cup {opened + 1}
          /\ pc' = "p3_visit"
       \/ /\ pc' = "cand_close"
          /\ UNCHANGED <<pages, opened, p3>>
    /\ UNCHANGED <<runVars, r, p2, sniffVars, candVars, pending, exc, hist, unitVars>>

\* harvest_one, lines 396-406: p3.goto and try_download_event there; an
\* exception is passed over
P3Visit ==
    /\ pc = "p3_visit"
    /\ \/ UNCHANGED <<r, pending, hist>>
       \/ \E t \in TrigResults[r.institution] :
             /\ hist' = [hist EXCEPT !.saved = @ + t.saved,
                               !.savedAt = IF @ = 0 /\ t.saved > 0 THEN ci ELSE @]
             /\ IF t.out # <<>>
                THEN /\ r' = Downloaded(r, t.out)
                     /\ pending' = "return"
                ELSE UNCHANGED <<r, pending>>
    /\ pc' = "p3_close"
    /\ UNCHANGED <<runVars, pageVars, sniffVars, candVars, exc, unitVars>>

\* the deeper page without its finally: p3 is left open
P3CloseMissing ==
    /\ pc = "p3_close"
    /\ pc' = "cand_close"
    /\ UNCHANGED <<runVars, r, pageVars, sniffVars, candVars, pending, exc, hist,
                   unitVars>>

\* harvest_one, lines 407-411: finally p3.close(); an exception of it
\* replaces the pending return and is passed over at line 410
P3Close ==
    /\ pc = "p3_close"
    /\ pages' = ClosePage(pages, p3)
    /\ \/ UNCHANGED pending
       \/ pending' = "none"
    /\ pc' = "cand_close"
    /\ UNCHANGED <<runVars, r, opened, p2, p3, sniffVars, candVars, exc, hist, unitVars>>

\* harvest_one, lines 412-413: finally p2.close(); then the pending return,
\* or the next candidate; an exception of it replaces the pending return and
\* reaches the handler of line 422
CandClose ==
    /\ pc = "cand_close"
    /\ pages' = ClosePage(pages, p2)
    /\ \/ /\ IF pending = "return"
             THEN pc' = "finally" /\ UNCHANGED ci
             ELSE pc' = "cand_open" /\ ci' = ci + 1
          /\ UNCHANGED <<pending, exc, hist>>
       \/ /\ pc' = "except"
          /\ pending' = "none"
          /\ exc' = Exc("close")
          /\ hist' = [hist EXCEPT !.caught = TRUE]
          /\ UNCHANGED ci
    /\ UNCHANGED <<runVars, r, opened, p2, p3, sniffVars, candidates, unitVars>>

\* harvest_one, lines 416-420: nothing found, the screenshot, return r
NotFound ==
    /\ pc = "not_found"
    /\ r' = [r EXCEPT !.status = "not_found",
                      !.notes = Note("No downloadable PDF detected via heuristics. Manual check needed.",
                                     <<>>)]
    /\ \/ /\ pending' = "return"
          /\ pc' = "finally"
          /\ UNCHANGED <<exc, hist>>
       \/ /\ pc' = "except"
          /\ exc' = Exc("screenshot")
          /\ hist' = [hist EXCEPT !.caught = TRUE]
          /\ UNCHANGED pending
    /\ UNCHANGED <<runVars, pageVars, sniffVars, candVars, unitVars>>

\* harvest_one, lines 422-430: the handler at the task boundary; its own
\* screenshot is guarded
Except ==
    /\ pc = "except"
    /\ r' = [r EXCEPT !.status = "error", !.notes = Note("repr", exc)]
    /\ pending' = "return"
    /\ pc' = "finally"
    /\ UNCHANGED <<runVars, pageVars, sniffVars, candVars, exc, hist, unitVars>>

\* harvest_one, lines 432-433, and main, lines 492-494: finally page.close(),
\* then r is returned and appended to results; an exception of the close
\* leaves harvest_one, and main with it
Finally ==
    /\ pc = "finally"
    /\ pages' = ClosePage(pages, page)
    /\ \/ /\ results' = Append(results, r)
          /\ idx' = idx + 1
          /\ hist' = [hist EXCEPT !.returned = TRUE]
          /\ pc' = "loop"
       \/ /\ hist' = [hist EXCEPT !.escaped = TRUE]
          /\ pc' = "unwind"
          /\ UNCHANGED <<results, idx>>
    /\ UNCHANGED <<rows, report, browser, r, opened, p2, p3, sniffVars, candVars,
                   pending, exc, unitVars>>

\* main, lines 496-497: browser.close() and write_reports(results); an
\* exception of the close leaves main before the reports
WriteReports ==
    /\ pc = "loop"
    /\ idx > Len(rows)
    /\ browser' = CloseBrowser(browser)
    /\ \/ /\ report' = <<"written", results>>
          /\ pc' = "exit"
       \/ /\ pc' = "unwind"
          /\ UNCHANGED report
    /\ UNCHANGED <<rows, idx, results, r, pageVars, sniffVars, candVars, pending, exc,
                   hist, unitVars>>

\* main, line 478: the exit of `with sync_playwright()`, reached at the end
\* of the block and by every exception that leaves it
ExitWith ==
    /\ pc \in {"exit", "unwind"}
    /\ browser' = StopPlaywright(browser)
    /\ pc' = IF pc = "exit" THEN "done" ELSE "aborted"
    /\ UNCHANGED <<rows, idx, results, report, r, pageVars, sniffVars, candVars,
                   pending, exc, hist, unitVars>>

Next ==
    \/ EnsureBrowsers \/ Interrupt \/ ExitWith
    \/ Launch \/ StartTask \/ Goto \/ Obstacles \/ Gate \/ ShotManual \/ Direct
    \/ Click \/ SniffedOpen \/ SniffedVisit \/ SniffedClose \/ CollectCandidates
    \/ CandOpen \/ CandVisit \/ P3Open \/ P3Visit \/ P3Close \/ CandClose
    \/ NotFound \/ Except \/ Finally \/ WriteReports

Spec == Init /\ [][Next]_vars

(***************************************************************************)
(* SpecHv: main.py and PdfHarvester.process_url (harvester.py).            *)
(***************************************************************************)
FALLBACK_LINK_KEYWORDS == << <<"p","d","f">>,
       <<"d","o","w","n","l","o","a","d">>,
       <<"r","e","p","o","r","t">>,
       <<"o","u","t","l","o","o","k">> >>

\* page.goto returned None
NO_RESPONSE == [ct |-> <<>>, cd |-> <<>>, url |-> <<>>]

\* a response whose address ends in .pdf though its type is not PDF
PDF_ADDRESS_RESPONSE == [ct |-> <<"t","e","x","t","/","h","t","m","l">>, cd |-> <<>>, url |-> <<"h","t","t","p","s",":","/","/","e",".","o","r","g","/","o",".","P","D","F">>]

HvResponses == Responses \cup {NO_RESPONSE, PDF_ADDRESS_RESPONSE}

\* PdfHarvester._is_pdf_response
_is_pdf_response(response) ==
    IF response = NO_RESPONSE THEN FALSE
    ELSE \/ Contains(Lower(response.ct), <<"a","p","p","l","i","c","a","t","i","o","n","/","p","d","f">>)
         \/ EndsWith(Lower(response.url), <<".","p","d","f">>)

\* PdfHarvester._handle_direct_pdf_download: returns False, not the result
_handle_direct_pdf_download == "return_false"

\* a link of the page: its href and text, whether get_attribute raises on
\* it, what navigating to its href brings ("download": a download event,
\* "fails": an exception, "page": a page) and the page it brings
Link(href, text, getErr, nav, after) ==
    [href |-> href, text |-> text, getErr |-> getErr, nav |-> nav, after |-> after]

\* _try_fallback_links, lines 230-236: the score of a link
Score(link) ==
    (IF EndsWith(Lower(link.href), <<".","p","d","f">>) THEN 10 ELSE 0)
    + (IF Contains(Lower(link.href), <<"p","d","f">>) THEN 5 ELSE 0)
    + (IF link.text # <<>> /\ \E k \in 1..Len(FALLBACK_LINK_KEYWORDS) :
                                  Contains(Lower(link.text), FALLBACK_LINK_KEYWORDS[k])
       THEN 3 ELSE 0)

\* _try_fallback_links, lines 223-241: the links that become candidates
Scored(anchors) ==
    SelectSeq(anchors, LAMBDA l : ~l.getErr /\ l.href # <<>> /\ Score(l) > 0)

\* candidates.sort(key=score, reverse=True): descending, equal scores in
\* their order of appearance
RECURSIVE SortByScore(_)
SortByScore(cands) ==
    IF cands = <<>> THEN <<>>
    ELSE LET best == CHOOSE i \in 1..Len(cands) :
                         /\ \A j \in 1..Len(cands) : Score(cands[j]) <= Score(cands[i])
                         /\ \A j \in 1..(i - 1) : Score(cands[j]) < Score(cands[i])
         IN  <<cands[best]>>
             \o SortByScore(SubSeq(cands, 1, best - 1) \o SubSeq(cands, best + 1, Len(cands)))

\* a sort that leaves equal scores in the reverse of their order
RECURSIVE SortByScoreUnstable(_)
SortByScoreUnstable(cands) ==
    IF cands = <<>> THEN <<>>
    ELSE LET best == CHOOSE i \in 1..Len(cands) :
                         /\ \A j \in 1..Len(cands) : Score(cands[j]) <= Score(cands[i])
                         /\ \A j \in (i + 1)..Len(cands) : Score(cands[j]) < Score(cands[i])
         IN  <<cands[best]>>
             \o SortByScoreUnstable(SubSeq(cands, 1, best - 1)
                                    \o SubSeq(cands, best + 1, Len(cands)))

\* _try_fallback_links, line 244: candidates.sort(key=lambda x: x[0], reverse=True)
Sorted(cands) == SortByScore(cands)

\* _try_fallback_links, lines 247-286: the loop over top_candidates
RECURSIVE VisitLinks(_, _, _)
VisitLinks(cands, saveOk, institution) ==
    IF cands = <<>>
    THEN [ret |-> FALSE, saved |-> 0, upd |-> <<>>, visited |-> <<>>]
    ELSE LET c    == Head(cands)
             rest == VisitLinks(Tail(cands), saveOk, institution)
             skip == [rest EXCEPT !.visited = <<c.href>> \o @]
         IN  IF EndsWith(Lower(c.href), <<".","p","d","f">>) /\ c.nav = "download"
             THEN LET sv == _save_download(saveOk, institution)
                  IN  [ret |-> sv.ret, saved |-> sv.saved, upd |-> sv.upd,
                       visited |-> <<c.href>>]
             ELSE IF c.nav # "page" THEN skip
             ELSE LET b == _try_download_buttons(c.after, institution)
                  IN  IF b.ret
                      THEN [ret |-> TRUE, saved |-> b.saved, upd |-> b.upd,
                            visited |-> <<c.href>>]
                      ELSE [skip EXCEPT !.saved = @ + b.saved]

\* _try_fallback_links, lines 244-245: candidates.sort and candidates[:10]
top_candidates(anchors) == Take(Sorted(Scored(anchors)), 10)

\* PdfHarvester._try_fallback_links; raises when page.locator("a").all()
\* raises
_try_fallback_links(v, institution) ==
    IF v.raises
    THEN [raises |-> TRUE, ret |-> FALSE, saved |-> 0, upd |-> <<>>, visited |-> <<>>]
    ELSE LET out == VisitLinks(top_candidates(v.links), v.saveOk, institution)
         IN  [raises |-> FALSE, ret |-> out.ret, saved |-> out.saved, upd |-> out.upd,
              visited |-> out.visited]

\* the pages a fallback link can bring
PLAIN_PAGE == [elems |-> <<>>, saveErrs |-> 0]
BUTTON_PAGE ==
    [elems |-> <<DlElem("button", <<"D","o","w","n","l","o","a","d"," ","P","D","F">>, TRUE, TRUE)>>, saveErrs |-> 0]

\* the links a modelled page can hold
LinkKinds ==
    { Link(<<"a",".","P","D","F">>, <<>>, FALSE, "download", PLAIN_PAGE),
      Link(<<"a",".","P","D","F">>, <<>>, FALSE, "page", PLAIN_PAGE),
      Link(<<"p","d","f","/","b">>, <<>>, FALSE, "fails", PLAIN_PAGE),
      Link(<<"c",".","h","t","m","l">>, <<"F","u","l","l"," ","R","e","p","o","r","t">>, FALSE, "page", BUTTON_PAGE),
      Link(<<"c",".","h","t","m","l">>, <<"O","u","t","l","o","o","k">>, FALSE, "page", PLAIN_PAGE),
      Link(<<"c",".","h","t","m","l">>, <<>>, FALSE, "page", BUTTON_PAGE),
      Link(<<"a",".","P","D","F">>, <<>>, TRUE, "page", PLAIN_PAGE),
      Link(<<>>, <<"O","u","t","l","o","o","k">>, FALSE, "page", PLAIN_PAGE) }

FallbackViews ==
    [raises : {FALSE}, links : BSeq(LinkKinds, MaxLinks), saveOk : BOOLEAN]
    \cup { [raises |-> TRUE, links |-> <<>>, saveOk |-> TRUE] }

\* what _check_compliance_gate can return under each profile
HvGateResults ==
    [p \in RunProfiles |-> { _check_compliance_gate(p, v).ret : v \in GateViews }]

\* what _try_download_buttons can return for each task
HvButtonResults ==
    [inst \in { Institution(i) : i \in 1..MaxTasks } |->
        { LET b == _try_download_buttons(v, inst)
          IN  [ret |-> b.ret, saved |-> b.saved, upd |-> b.upd,
               clicked |-> b.clicks # <<>>] : v \in TrigViews }]

\* what _try_fallback_links can return for each task
HvFallbackResults ==
    [inst \in { Institution(i) : i \in 1..MaxTasks } |->
        { LET f == _try_fallback_links(v, inst)
          IN  [raises |-> f.raises, ret |-> f.ret, saved |-> f.saved, upd |-> f.upd] :
              v \in FallbackViews }]

\* a cell pandas read as missing
NAN == <<"NaN">>

\* str.strip
RECURSIVE LStrip(_)
LStrip(s) == IF s # <<>> /\ Head(s) \in {" ", "\t"} THEN LStrip(Tail(s)) ELSE s

RECURSIVE RStrip(_)
RStrip(s) ==
    IF s # <<>> /\ s[Len(s)] \in {" ", "\t"} THEN RStrip(SubSeq(s, 1, Len(s) - 1)) ELSE s

Strip(s) == RStrip(LStrip(s))

\* main.py, line 40: pd.isna(url) or not url.strip()
BlankUrl(url) == url = NAN \/ Strip(url) = <<>>

\* the URL cells of the input rows
RowUrls == { NAN, <<" ", " ">>, <<" ","h","t","t","p","s",":","/","/","e",".","o","r","g","/","o">> }

\* the input rows: every list of 1..MaxTasks rows over RowUrls
InputRows ==
    UNION { { [i \in 1..n |-> [institution |-> Institution(i), url |-> u[i]]] :
                  u \in [1..n -> RowUrls] } : n \in 1..MaxTasks }

\* process_url, lines 44-50: the result dictionary
NewResult(url) ==
    [start_url |-> url, status |-> "error", notes |-> Note("", <<>>), file_path |-> <<>>]

\* the fields _save_download sets in result
Update(res, upd) ==
    [res EXCEPT !.status = upd.status, !.file_path = upd.file_path, !.notes = upd.notes]

\* main.py, lines 46-54: the record appended for a result
Record(institution, res) ==
    [institution |-> institution, start_url |-> res.start_url, status |-> res.status,
     notes |-> res.notes, file_path |-> res.file_path]

InitHv ==
    /\ IdleExtra
    /\ INVESTOR_PROFILE \in RunProfiles
    /\ rows \in InputRows
    /\ pc = "hv_start"
    /\ idx = 0
    /\ results = <<>>
    /\ report = <<"unwritten">>
    /\ browser = NoBrowser
    /\ r = HarvestResult(<<>>)
    /\ pages = {}
    /\ opened = 0
    /\ p2 = 0
    /\ p3 = 0
    /\ sniffer_state = attach_pdf_sniffer
    /\ s2 = attach_pdf_sniffer
    /\ candidates = <<>>
    /\ ci = 0
    /\ pending = "none"
    /\ exc = <<>>
    /\ hist = NewHistory
    /\ IdleCollect
    /\ IdleGate
    /\ IdleTrigger
    /\ IdleFallback

hvIdleVars == <<p2, p3, sniffVars, candVars, unitVars>>

\* the positions inside process_url
HvTaskPcs ==
    {"p_goto", "p_obstacles", "p_buttons", "p_gate", "p_rescan", "p_fallback",
     "p_except", "p_finally"}

\* main.py, lines 29-32: harvester.start() (harvester.py, lines 14-27),
\* results = []; start stands before the try of main, so an exception or
\* interrupt in it, before or after the launch, leaves main at once
HvStart ==
    /\ pc = "hv_start"
    /\ \/ /\ browser' = LaunchBrowser(browser)
          /\ results' = <<>>
          /\ idx' = 1
          /\ pc' = "hv_loop"
       \/ /\ browser' = LaunchBrowser(browser)
          /\ pc' = "aborted"
          /\ UNCHANGED <<results, idx>>
       \/ /\ pc' = "aborted"
          /\ UNCHANGED <<browser, results, idx>>
    /\ UNCHANGED <<rows, report, r, pages, opened, pending, exc, hist, hvIdleVars>>

\* KeyboardInterrupt during a task, outside the bare except clauses: it
\* passes `except Exception` (harvester.py, line 105), the finally closes
\* the page (line 112) and main catches it (main.py, lines 56-57)
HvInterrupt ==
    /\ pc \in HvTaskPcs
    /\ pages' = ClosePage(pages, page)
    /\ pending' = "interrupt"
    /\ pc' = "hv_stop"
    /\ UNCHANGED <<runVars, r, opened, exc, hist, hvIdleVars>>

\* main.py, lines 36-41: a row whose URL is missing or blank is passed over
SkipRow ==
    /\ pc = "hv_loop"
    /\ idx <= Len(rows)
    /\ BlankUrl(rows[idx].url)
    /\ idx' = idx + 1
    /\ UNCHANGED <<pc, rows, results, report, browser, r, pages, opened, pending, exc,
                   hist, hvIdleVars>>

\* main.py, line 45 and process_url, lines 43-50: context.new_page()
\* stands before the try; its exception leaves process_url and the loop
ProcessUrl ==
    /\ pc = "hv_loop"
    /\ idx <= Len(rows)
    /\ ~BlankUrl(rows[idx].url)
    /\ hist' = NewHistory
    /\ \/ /\ pages' = pages \cup {page}
          /\ opened' = 1
          /\ r' = NewResult(rows[idx].url)
          /\ pending' = "none"
          /\ exc' = <<>>
          /\ pc' = "p_goto"
       \/ /\ pending' = "raise"
          /\ exc' = Exc("new_page")
          /\ pc' = "hv_stop"
          /\ UNCHANGED <<pages, opened, r>>
    /\ UNCHANGED <<runVars, hvIdleVars>>

\* process_url, lines 56-67: page.goto; a failure returns the result with
\* status error; a PDF response returns what _handle_direct_pdf_download
\* returns
PGoto ==
    /\ pc = "p_goto"
    /\ \/ /\ r' = [r EXCEPT !.status = "error",
                            !.notes = Note("Failed to load page: ", Exc("goto"))]
          /\ pending' = "return"
          /\ pc' = "p_finally"
       \/ \E response \in HvResponses :
             IF _is_pdf_response(response)
             THEN /\ pending' = _handle_direct_pdf_download
                  /\ pc' = "p_finally"
                  /\ UNCHANGED r
             ELSE /\ pc' = "p_obstacles"
                  /\ UNCHANGED <<r, pending>>
    /\ UNCHANGED <<runVars, pages, opened, exc, hist, hvIdleVars>>

\* process_url, lines 70-73: _handle_cookies and _handle_popups, which pass
\* over every exception
PObstacles ==
    /\ pc = "p_obstacles"
    /\ pc' = "p_buttons"
    /\ hist' = [hist EXCEPT !.steps = Append(@, "obstacles")]
    /\ UNCHANGED <<runVars, r, pages, opened, pending, exc, hvIdleVars>>

\* process_url, lines 80-81: _try_download_buttons before the gate check
PButtons ==
    /\ pc = "p_buttons"
    /\ \E b \in HvButtonResults[rows[idx].institution] :
          /\ hist' = [hist EXCEPT !.saved = @ + b.saved, !.steps = Append(@, TrigStep(b))]
          /\ IF b.ret
             THEN /\ r' = Update(r, b.upd)
                  /\ pending' = "return"
                  /\ pc' = "p_finally"
             ELSE /\ pc' = "p_gate"
                  /\ UNCHANGED <<r, pending>>
    /\ UNCHANGED <<runVars, pages, opened, exc, hvIdleVars>>

\* process_url, lines 84-93: _check_compliance_gate
PGate ==
    /\ pc = "p_gate"
    /\ \E g \in HvGateResults[INVESTOR_PROFILE] :
          CASE g = "raise" ->
                  /\ exc' = Exc("content")
                  /\ hist' = [hist EXCEPT !.caught = TRUE, !.steps = Append(@, "gate")]
                  /\ pc' = "p_except"
                  /\ UNCHANGED <<r, pending>>
            [] g = "manual_required" ->
                  /\ r' = [r EXCEPT !.status = "manual_required",
                                    !.notes = Note("Compliance gate detected, manual intervention required.", <<>>)]
                  /\ hist' = [hist EXCEPT !.gate0 = "manual", !.steps = Append(@, "gate")]
                  /\ pending' = "return"
                  /\ pc' = "p_finally"
                  /\ UNCHANGED exc
            [] g = "gate_passed" ->
                  /\ hist' = [hist EXCEPT !.gate0 = "handled", !.steps = Append(@, "gate")]
                  /\ pc' = "p_rescan"
                  /\ UNCHANGED <<r, pending, exc>>
            [] g = "none" ->
                  /\ hist' = [hist EXCEPT !.gate0 = "none", !.steps = Append(@, "gate")]
                  /\ pc' = "p_fallback"
                  /\ UNCHANGED <<r, pending, exc>>
    /\ UNCHANGED <<runVars, pages, opened, hvIdleVars>>

\* process_url, lines 92-93: _try_download_buttons after a passed gate
PRescan ==
    /\ pc = "p_rescan"
    /\ \E b \in HvButtonResults[rows[idx].institution] :
          /\ hist' = [hist EXCEPT !.saved = @ + b.saved, !.steps = Append(@, TrigStep(b))]
          /\ IF b.ret
             THEN /\ r' = Update(r, b.upd)
                  /\ pending' = "return"
                  /\ pc' = "p_finally"
             ELSE /\ pc' = "p_fallback"
                  /\ UNCHANGED <<r, pending>>
    /\ UNCHANGED <<runVars, pages, opened, exc, hvIdleVars>>

\* process_url, lines 96-103: _try_fallback_links, then not_found
PFallback ==
    /\ pc = "p_fallback"
    /\ \E f \in HvFallbackResults[rows[idx].institution] :
          IF f.raises
          THEN /\ exc' = Exc("locator")
               /\ hist' = [hist EXCEPT !.caught = TRUE]
               /\ pc' = "p_except"
               /\ UNCHANGED <<r, pending>>
          ELSE /\ hist' = [hist EXCEPT !.saved = @ + f.saved]
               /\ r' = IF f.ret THEN Update(r, f.upd)
                       ELSE [r EXCEPT !.status = "not_found",
                                      !.notes = Note("No PDF found after scanning.", <<>>)]
               /\ pending' = "return"
               /\ pc' = "p_finally"
               /\ UNCHANGED exc
    /\ UNCHANGED <<runVars, pages, opened, hvIdleVars>>

\* process_url, lines 105-110: the handler at the task boundary
PExcept ==
    /\ pc = "p_except"
    /\ r' = [r EXCEPT !.status = "error", !.notes = Note("str", exc)]
    /\ pending' = "return"
    /\ pc' = "p_finally"
    /\ UNCHANGED <<runVars, pages, opened, exc, hist, hvIdleVars>>

\* process_url, lines 111-112, and main.py, lines 45-54: finally
\* page.close(), then what was returned reaches main, which subscripts it;
\* False is not subscriptable, and a TypeError, like an exception of the
\* close, is not among the exceptions the loop catches
PFinally ==
    /\ pc = "p_finally"
    /\ pages' = ClosePage(pages, page)
    /\ \/ IF pending = "return"
          THEN /\ results' = Append(results, Record(rows[idx].institution, r))
               /\ idx' = idx + 1
               /\ hist' = [hist EXCEPT !.returned = TRUE]
               /\ pc' = "hv_loop"
               /\ UNCHANGED <<pending, exc>>
          ELSE /\ pending' = "raise"
               /\ exc' = <<"TypeError", "'bool' object is not subscriptable">>
               /\ pc' = "hv_stop"
               /\ UNCHANGED <<results, idx, hist>>
       \/ /\ pending' = "raise"
          /\ exc' = Exc("close")
          /\ hist' = [hist EXCEPT !.escaped = TRUE]
          /\ pc' = "hv_stop"
          /\ UNCHANGED <<results, idx>>
    /\ UNCHANGED <<rows, report, browser, r, opened, hvIdleVars>>

\* main.py, lines 56-59: the rows are exhausted, an interrupt was caught,
\* or an exception is on its way out: finally harvester.stop()
\* (harvester.py, lines 29-36): context.close(), browser.close(),
\* playwright.stop(), none of them guarded, so an exception or interrupt in
\* one skips the calls after it and leaves main
HvStop ==
    /\ \/ pc = "hv_loop" /\ idx > Len(rows)
       \/ pc = "hv_stop"
    /\ \/ /\ browser' = StopPlaywright(CloseBrowser(browser))
          /\ pc' = IF pending = "raise" THEN "aborted" ELSE "hv_summary"
          /\ UNCHANGED pending
       \/ /\ UNCHANGED browser
          /\ pending' = "raise"
          /\ pc' = "aborted"
       \/ /\ browser' = CloseBrowser(browser)
          /\ pending' = "raise"
          /\ pc' = "aborted"
    /\ UNCHANGED <<rows, idx, results, report, r, pages, opened, exc, hist, hvIdleVars>>

\* main.py, lines 62-63: the summary is written
HvSummary ==
    /\ pc = "hv_summary"
    /\ report' = <<"written", results>>
    /\ pc' = "done"
    /\ UNCHANGED <<rows, idx, results, browser, r, pages, opened, pending, exc, hist,
                   hvIdleVars>>

NextHv ==
    \/ HvStart \/ HvInterrupt \/ SkipRow \/ ProcessUrl \/ PGoto \/ PObstacles \/ PButtons \/ PGate
    \/ PRescan \/ PFallback \/ PExcept \/ PFinally \/ HvStop \/ HvSummary

SpecHv == InitHv /\ [][NextHv]_vars

(***************************************************************************)
(* SpecFallback: the scored candidates of PdfHarvester._try_fallback_links *)
(* on bounded pages.                                                       *)
(***************************************************************************)
\* more distinct links than the fallback keeps: hrefs "1.pdf" (score 15),
\* "2pdf" (score 5), "3" with text Report (score 3), "4.pdf", ...
ManyLinks ==
    [i \in 1..(10 + 2) |->
        CASE i % 3 = 1 -> Link(<<ToString(i)>> \o <<".","p","d","f">>, <<>>, FALSE, "fails", PLAIN_PAGE)
          [] i % 3 = 2 -> Link(<<ToString(i)>> \o <<"p","d","f">>, <<>>, FALSE, "fails", PLAIN_PAGE)
          [] OTHER     -> Link(<<ToString(i)>>, <<"R","e","p","o","r","t">>, FALSE, "fails", PLAIN_PAGE)]

\* the pages of SpecFallback: up to MaxLinks pairwise different links, alone
\* or before or after the block of ManyLinks
RankViews ==
    LET pres == { s \in BSeq(LinkKinds, MaxLinks) :
                      \A i, j \in 1..Len(s) : i # j => s[i] # s[j] }
    IN  { [raises |-> FALSE, links |-> pre \o tail, saveOk |-> TRUE] :
              pre \in pres, tail \in {<<>>, ManyLinks} }
        \cup { [raises |-> FALSE, links |-> ManyLinks \o pre, saveOk |-> TRUE] :
                  pre \in pres }

InitFallback ==
    /\ IdleExtra
    /\ fb_view \in RankViews
    /\ fb_out = <<"pending">>
    /\ INVESTOR_PROFILE = UNKNOWN
    /\ IdleCollect
    /\ IdleGate
    /\ IdleTrigger
    /\ IdleTask

\* a call of PdfHarvester._try_fallback_links: the candidates it ranked and
\* kept, and what it returned
TryFallbackLinks ==
    /\ fb_out = <<"pending">>
    /\ fb_out' = <<"ret", top_candidates(fb_view.links), _try_fallback_links(fb_view, ACME)>>
    /\ UNCHANGED <<fb_view, INVESTOR_PROFILE, collectVars, gateVars, trigVars, taskVars,
                   extraVars>>

NextFallback == TryFallbackLinks

SpecFallback == InitFallback /\ [][NextFallback]_vars

(***************************************************************************)
(* pdf_harvester.py: click_by_text and the obstacle handlers, called any   *)
(* number of times on one page.  A view v of the page: url, text (the      *)
(* visible text besides the elements), bodyErr, elems.  An element whose   *)
(* click returned (a banner accepted, a modal closed) leaves the page.     *)
(***************************************************************************)
LINKEDIN_TEXTS == << <<"C","o","n","t","i","n","u","e">>, <<"G","o"," ","t","o"," ","l","i","n","k">>, <<"P","r","o","c","e","e","d">> >>

\* handle_linkedin_interstitial: "linkedin.com" in page.url and "leaving"
\* in the lower-cased page text, then click_by_text
handle_linkedin_interstitial(v) ==
    IF /\ Contains(v.url, <<"l","i","n","k","e","d","i","n",".","c","o","m">>)
       /\ Contains(Lower(body_text(v)), <<"l","e","a","v","i","n","g">>)
    THEN LET c == click_by_text(v.elems, LINKEDIN_TEXTS)
         IN  [actions |-> IF c.ret THEN <<Tag("handled_linkedin_redirect")>> ELSE <<>>,
              clicks  |-> c.clicks]
    ELSE [actions |-> <<>>, clicks |-> <<>>]

\* the elements a modelled page with obstacles can hold
ObElems ==
    { Elem("button", <<"A","c","c","e","p","t">>, TRUE),
      Elem("button", <<"A","c","c","e","p","t">>, FALSE),
      Elem("link",   <<"A","c","c","e","p","t"," ","a","l","l">>, TRUE),
      Elem("button", <<"C","l","o","s","e">>, TRUE),
      [Elem("button", <<"C","l","o","s","e">>, TRUE) EXCEPT !.aria = TRUE],
      Elem("link",   <<"C","o","n","t","i","n","u","e">>, TRUE),
      Elem("button", <<"C","o","n","t","i","n","u","e">>, FALSE),
      Elem("link",   <<"A","b","o","u","t">>, TRUE) }

LINKEDIN_PAGE ==
    [url |-> <<"h","t","t","p","s",":","/","/","w","w","w",".","l","i","n","k","e","d","i","n",".","c","o","m","/","r">>, text |-> <<"Y","o","u"," ","a","r","e"," ","l","e","a","v","i","n","g"," ","L","i","n","k","e","d","I","n">>]
OTHER_PAGE == [url |-> <<"h","t","t","p","s",":","/","/","e",".","o","r","g","/","o">>, text |-> <<"F","u","n","d"," ","r","e","p","o","r","t">>]
ObPlaces ==
    { LINKEDIN_PAGE, OTHER_PAGE, [LINKEDIN_PAGE EXCEPT !.text = OTHER_PAGE.text] }

ObViews ==
    { [url |-> q.url, text |-> q.text, bodyErr |-> FALSE, elems |-> es] :
          q \in ObPlaces, es \in BSeq(ObElems, MaxElems) }
    \cup { [url |-> LINKEDIN_PAGE.url, text |-> LINKEDIN_PAGE.text, bodyErr |-> TRUE,
            elems |-> es] : es \in BSeq(ObElems, 1) }

\* the HarvestResult handed to the handlers: new, or with an earlier entry
ObResults ==
    { [status |-> "error", file_path |-> <<>>, actions |-> acts] :
          acts \in { <<>>, <<Tag("closed_modal")>> } }

\* the texts click_by_text is called with
MatcherTexts == {COOKIE_TEXTS, CLOSE_TEXTS, LINKEDIN_TEXTS}

\* the page after the clicks of a call: an element whose click returned is
\* gone
AfterClicks(v, clicks) ==
    LET gone == { clicks[i].name : i \in { j \in 1..Len(clicks) : clicks[j].ok } }
    IN  [v EXCEPT !.elems = SelectSeq(@, LAMBDA el : ~(el.clickable /\ el.name \in gone))]

InitObstacles ==
    /\ IdleSniffer
    /\ ob_view \in ObViews
    /\ ob_result \in ObResults
    /\ ob_init = [view |-> ob_view, result |-> ob_result]
    /\ ob_last = [op |-> "none"]
    /\ INVESTOR_PROFILE = UNKNOWN
    /\ IdleCollect
    /\ IdleGate
    /\ IdleTrigger
    /\ IdleTask
    /\ IdleFallback

\* what a call leaves: the call, what it was given, returned and clicked
Called(op, texts, out) ==
    /\ ob_last' = [op |-> op, texts |-> texts, view |-> ob_view, before |-> ob_result,
                   ret |-> out.ret, clicks |-> out.clicks]
    /\ ob_view' = AfterClicks(ob_view, out.clicks)
    /\ UNCHANGED <<ob_init, snVars, INVESTOR_PROFILE, collectVars, gateVars, trigVars,
                   taskVars, fbVars>>

\* a call of click_by_text
ClickByText ==
    \E texts \in MatcherTexts :
        /\ Called("click_by_text", texts, click_by_text(ob_view.elems, texts))
        /\ UNCHANGED ob_result

\* a call of an obstacle handler: it returns None and appends to
\* result.actions
Handled(op, texts, h) ==
    /\ Called(op, texts, [ret |-> "None", clicks |-> h.clicks])
    /\ ob_result' = [ob_result EXCEPT !.actions = @ \o h.actions]

HandleCookies ==
    LET h == handle_cookies(ob_view.elems)
    IN  Handled("handle_cookies", COOKIE_TEXTS, h)

CloseModals ==
    LET h == close_modals(ob_view.elems)
    IN  Handled("close_modals", CLOSE_TEXTS, h)

HandleLinkedinInterstitial ==
    LET h == handle_linkedin_interstitial(ob_view)
    IN  Handled("handle_linkedin_interstitial", LINKEDIN_TEXTS, h)

NextObstacles ==
    ClickByText \/ HandleCookies \/ CloseModals \/ HandleLinkedinInterstitial

SpecObstacles == InitObstacles /\ [][NextObstacles]_vars

(***************************************************************************)
(* pdf_harvester.py: attach_pdf_sniffer on the pages of a task that get a  *)
(* sniffer, the task page and a follow-up page, and the responses that     *)
(* arrive on them in any interleaving.                                     *)
(***************************************************************************)
SnPages == {"page", "p2"}

InitSniffer ==
    /\ sn_seen = [q \in SnPages |-> <<>>]
    /\ sn_state = [q \in SnPages |-> attach_pdf_sniffer]
    /\ INVESTOR_PROFILE = UNKNOWN
    /\ IdleCollect
    /\ IdleGate
    /\ IdleTrigger
    /\ IdleTask
    /\ IdleFallback
    /\ IdleObstacles

\* the responses observed so far, on all pages
Observed == Len(sn_seen["page"]) + Len(sn_seen["p2"])

\* a response arrives on a page: the callback registered for that page runs
OnResponse ==
    /\ Observed < MaxResps
    /\ \E q \in SnPages, resp \in Responses :
          /\ sn_seen' = [sn_seen EXCEPT ![q] = Append(@, resp)]
          /\ sn_state' = [sn_state EXCEPT ![q] = on_response(@, resp)]
    /\ UNCHANGED <<obVars, INVESTOR_PROFILE, collectVars, gateVars, trigVars, taskVars,
                   fbVars>>

NextSniffer == OnResponse

SpecSniffer == InitSniffer /\ [][NextSniffer]_vars

(***************************************************************************)
(* Claims.                                                                 *)
(***************************************************************************)
\* the labels of the profiles other than p that are not labels of p
ForeignLabels(p) ==
    UNION { Range(PROFILE_MAP(q)) : q \in Profiles \ {p} } \ Range(PROFILE_MAP(p))

\* the keyword test of harvester.py on the readable content of a view
HvGateFound(v) ==
    /\ ~v.bodyErr
    /\ \E k \in 1..Len(COMPLIANCE_GATE_KEYWORDS) :
          Contains(Lower(v.text \o ElemText(v.elems)), COMPLIANCE_GATE_KEYWORDS[k])

\* C4: called on a page whose text holds a gate keyword with the profile
\* configured as unknown, either gate resolver reports manual-required and
\* has attempted no click.
C4_UnknownProfileNoClick ==
    /\ (/\ gate_out[1] = "resolve_gate"
        /\ INVESTOR_PROFILE = UNKNOWN
        /\ contains_any(body_text(gate_view), GATE_HINTS))
       => (~gate_out[2].handled /\ gate_out[2].clicks = <<>>)
    /\ (/\ gate_out[1] = "_check_compliance_gate"
        /\ INVESTOR_PROFILE = UNKNOWN
        /\ HvGateFound(gate_view))
       => (gate_out[2].ret = "manual_required" /\ gate_out[2].clicks = <<>>)

\* C4 witness: resolve_gate has returned for profile unknown on a gate page
\* that offers a clickable "Retail" button.
C4_Witness ==
    /\ gate_out[1] = "resolve_gate"
    /\ INVESTOR_PROFILE = UNKNOWN
    /\ contains_any(body_text(gate_view), GATE_HINTS)
    /\ \E i \in 1..Len(gate_view.elems) :
          gate_view.elems[i] = Elem("button", <<"R","e","t","a","i","l">>, TRUE)

\* C5: on a detected gate, a resolver reports handled exactly when a click it
\* made through a label of the configured profile returned (for harvester.py
\* the label is the profile name, and the page must also settle), it reports
\* manual-required otherwise, and no click of the call was made through a
\* label that only other profiles have.
C5_HandledOnlyByOwnLabel ==
    /\ (gate_out[1] = "resolve_gate" /\ contains_any(body_text(gate_view), GATE_HINTS))
       => LET own == Range(PROFILE_MAP(INVESTOR_PROFILE))
              cl  == gate_out[2].clicks
          IN  /\ gate_out[2].handled
                    <=> \E i \in 1..Len(cl) : cl[i].ok /\ cl[i].by \in own
              /\ \A i \in 1..Len(cl) : cl[i].by \notin ForeignLabels(INVESTOR_PROFILE)
    /\ (gate_out[1] = "_check_compliance_gate" /\ HvGateFound(gate_view))
       => LET cl == gate_out[2].clicks
          IN  /\ gate_out[2].ret \in {"gate_passed", "manual_required"}
              /\ gate_out[2].ret = "gate_passed"
                    => \E i \in 1..Len(cl) : cl[i].ok /\ cl[i].by = INVESTOR_PROFILE
              /\ (~\E i \in 1..Len(cl) : cl[i].ok) => gate_out[2].ret = "manual_required"
              /\ \A i \in 1..Len(cl) : cl[i].by = INVESTOR_PROFILE

\* C5 witness: resolve_gate has handled a gate for profile professional on a
\* page whose first element is a clickable "Retail" button.
C5_Witness ==
    /\ gate_out[1] = "resolve_gate"
    /\ INVESTOR_PROFILE = PROFESSIONAL
    /\ contains_any(body_text(gate_view), GATE_HINTS)
    /\ gate_out[2].handled
    /\ Len(gate_view.elems) >= 2
    /\ gate_view.elems[1] = Elem("button", <<"R","e","t","a","i","l">>, TRUE)

\* what C8 says of one finished call of a trigger over the phrase list hints,
\* given whether it returned a saved file
TriggerAsClaimed(o, hints, returned) ==
    LET log == o.log
        Hit(i) == log[i].clicked /\ log[i].fired
    IN  /\ Len(log) <= Len(hints)
        /\ \A i \in 1..Len(log) : log[i].hint = hints[i]
        /\ \A i \in 1..(Len(log) - 1) : ~Hit(i)
        /\ returned <=> (\E i \in 1..Len(log) : Hit(i))
        /\ returned => o.saved = 1
        /\ ~returned => (Len(log) = Len(hints) /\ o.saved = 0)

\* C8 (as claimed): when no save_as raises, a Download Trigger tries the
\* phrases in list order, goes on after a phrase without click or download
\* event, returns the saved file (exactly one) at the first phrase with a
\* click and a download event, and returns absent only after all phrases.
C8_TriggerFirstHit ==
    /\ (trig_out[1] = "try_download_event" /\ trig_view.saveErrs = 0)
       => TriggerAsClaimed(trig_out[2], DOWNLOAD_HINTS, trig_out[2].out # <<>>)
    /\ (trig_out[1] = "_try_download_buttons" /\ trig_view.saveErrs = 0)
       => TriggerAsClaimed(trig_out[2], PDF_LINK_KEYWORDS_PRIORITY, trig_out[2].ret)

\* the position at which h is first seen in the list s
FirstSeen(s, h) == CHOOSE i \in 1..Len(s) : s[i] = h /\ \A j \in 1..(i - 1) : s[j] # h

\* C10: collect_candidate_links returns at most MAX_CANDIDATE_LINKS hrefs of
\* the page, without duplicates, in first-seen document order; when some href
\* of the page ends in .pdf (query stripped) every returned href does, and
\* otherwise every returned href contains a keyword; an href of the wanted
\* kind is left out only when the limit was reached before it.
C10_CollectEitherOr ==
    links[1] = "ret" =>
        LET out    == links[2]
            in     == IF hrefs.raises THEN <<>> ELSE hrefs.list
            anyPdf == \E i \in 1..Len(in) : is_pdf_url(in[i])
            Wanted(h) == IF anyPdf THEN is_pdf_url(h) ELSE pdfish(h)
        IN  /\ Len(out) <= MAX_CANDIDATE_LINKS
            /\ \A i, j \in 1..Len(out) : i # j => out[i] # out[j]
            /\ \A i \in 1..Len(out) : out[i] \in Range(in) /\ Wanted(out[i])
            /\ \A i, j \in 1..Len(out) :
                  i < j => FirstSeen(in, out[i]) < FirstSeen(in, out[j])
            /\ \A h \in Range(in) :
                  (Wanted(h) /\ h \notin Range(out)) =>
                      /\ Len(out) = MAX_CANDIDATE_LINKS
                      /\ FirstSeen(in, out[Len(out)]) < FirstSeen(in, h)

\* C10 witness: a page with a repeated href, a keyword href that is no .pdf,
\* and more distinct .pdf hrefs than the limit; the result is cut at the limit.
C10_Witness ==
    /\ links[1] = "ret"
    /\ ~hrefs.raises
    /\ Len(links[2]) = MAX_CANDIDATE_LINKS
    /\ \E i, j \in 1..Len(hrefs.list) : i # j /\ hrefs.list[i] = hrefs.list[j]
    /\ \E i \in 1..Len(hrefs.list) :
          pdfish(hrefs.list[i]) /\ ~is_pdf_url(hrefs.list[i])
    /\ \E i \in 1..Len(hrefs.list) :
          is_pdf_url(hrefs.list[i]) /\ hrefs.list[i] \notin Range(links[2])


\* the statuses of a result
Statuses == {"downloaded", "manual_required", "not_found", "error"}

\* C1: every result a task returned has one of the four statuses, and its
\* file_path is set exactly when its status is downloaded.
C1_FilePathIffDownloaded ==
    \A i \in 1..Len(results) :
        /\ results[i].status \in Statuses
        /\ (results[i].file_path # <<>>) <=> (results[i].status = "downloaded")

\* the rows of the input whose URL is not blank, in input order
NonBlankRows == SelectSeq(rows, LAMBDA row : ~BlankUrl(row.url))

\* C2: no exception of a task leaves the loop, and when a run that was not
\* interrupted has ended the report is written with one record per row with
\* a non-blank URL, in input order.
C2_RunCompletes ==
    /\ ~(pc = "hv_stop" /\ pending = "raise")
    /\ (pc = "done" /\ pending # "interrupt") =>
          /\ report[1] = "written"
          /\ Len(report[2]) = Len(NonBlankRows)
          /\ \A k \in 1..Len(NonBlankRows) :
                 report[2][k].institution = NonBlankRows[k].institution


\* C3: no exception leaves harvest_one once its try is entered, and a task
\* in which an exception reached the task boundary returns status error with
\* the exception's description as its notes.
C3_CaughtAtBoundary ==
    /\ ~hist.escaped
    /\ (hist.returned /\ hist.caught) =>
           (r.status = "error" /\ r.notes = Note("repr", exc))

\* C6: a task whose start page the Gate Resolver reported manual-required
\* returns status manual_required with no file_path.
C6_ManualRequiredTerminal ==
    (hist.returned /\ hist.gate0 = "manual") =>
        (r.status = "manual_required" /\ r.file_path = <<>>)

\* C7: whenever no task is running, no page is open: every page a task
\* opened was handed to close() before the task returned or raised.
C7_PagesClosed ==
    (pc \notin TaskPcs) => (pages = {})

\* a task returned after opening the task page, two candidate pages and a
\* deeper page
C7_Witness ==
    /\ pc = "loop"
    /\ hist.returned
    /\ opened >= 4
    /\ Len(hist.visited) = 2
    /\ pages = {}

\* C9: the candidates are visited in list order; the task returns
\* downloaded once a candidate has yielded a file, with no later candidate
\* visited; it returns not_found only with every candidate visited and no
\* file; it returns manual_required only for the gate of the start page.
C9_CandidatesInOrder ==
    /\ \A i \in 1..Len(hist.visited) : hist.visited[i] = i
    /\ hist.returned =>
          /\ (hist.savedAt > 0) =>
                 (r.status = "downloaded" /\ Len(hist.visited) = hist.savedAt)
          /\ (r.status = "not_found") =>
                 (hist.savedAt = 0 /\ Len(hist.visited) = Len(candidates))
          /\ (r.status = "manual_required") => (hist.gate0 = "manual")

\* the score the claim gives a link: 10 for an href ending in .pdf, 5 for
\* an href containing pdf, 3 for a text containing a keyword
ScoreAsClaimed(l) ==
    (IF EndsWith(Lower(l.href), <<".","p","d","f">>) THEN 10 ELSE 0)
    + (IF Contains(Lower(l.href), <<"p","d","f">>) THEN 5 ELSE 0)
    + (IF \E k \in 1..Len(FALLBACK_LINK_KEYWORDS) :
              Contains(Lower(l.text), FALLBACK_LINK_KEYWORDS[k])
       THEN 3 ELSE 0)

\* the links of the page that can be candidates: an href that could be
\* read and is not empty, and a positive score
Eligible(l) == ~l.getErr /\ l.href # <<>> /\ ScoreAsClaimed(l) > 0

\* C11: the candidates the scored fallback keeps are links of the page with
\* a positive score as claimed (+10, +5, +3), at most 10 of them, each once, in
\* descending score with equal scores in document order, and no link left
\* out would rank before the last one kept.
C11_RankedTopTen ==
    fb_out[1] = "ret" =>
        LET in   == fb_view.links
            out  == fb_out[2]
            n    == Cardinality({ i \in 1..Len(in) : Eligible(in[i]) })
            Before(a, b) ==
                \/ ScoreAsClaimed(a) > ScoreAsClaimed(b)
                \/ ScoreAsClaimed(a) = ScoreAsClaimed(b) /\ FirstSeen(in, a) < FirstSeen(in, b)
        IN  /\ Len(out) = Min(10, n)
            /\ \A i \in 1..Len(out) : out[i] \in Range(in) /\ Eligible(out[i])
            /\ \A i, j \in 1..Len(out) : i < j => Before(out[i], out[j])
            /\ \A l \in Range(in) :
                   (Eligible(l) /\ l \notin Range(out)) => Before(out[Len(out)], l)

\* more than 10 links score, two kept links tie, and a link that scores is
\* cut
C11_Witness ==
    /\ fb_out[1] = "ret"
    /\ Len(fb_out[2]) = 10
    /\ \E l \in Range(fb_view.links) : Eligible(l) /\ l \notin Range(fb_out[2])
    /\ \E i \in 1..9 : ScoreAsClaimed(fb_out[2][i]) = ScoreAsClaimed(fb_out[2][i + 1])
    /\ ScoreAsClaimed(fb_out[2][1]) > ScoreAsClaimed(fb_out[2][10])

\* C12: the shared browser session is opened at most once, a task only runs
\* while it is open, and when the run has ended, by its last task, by an
\* interrupt or by an exception, a session that was opened has been closed,
\* once.
C12_SessionOpenedAndClosedOnce ==
    /\ browser.opens <= 1
    /\ browser.closes <= browser.opens
    /\ (pc \in TaskPcs \cup HvTaskPcs) => browser.state = "open"
    /\ (pc \in {"done", "aborted"}) => browser.closes = browser.opens

\* the rows before row idx whose URL is not blank, in input order
NonBlankDone == SelectSeq(SubSeq(rows, 1, idx - 1), LAMBDA row : ~BlankUrl(row.url))

\* C13: no task runs on a row whose URL is missing or blank and no record
\* is appended for it, and every other row the loop has passed has its
\* record: the records are those of the non-blank rows passed so far, in
\* order, and no task ends without one unless the run is interrupted.
C13_BlankRowsSkipped ==
    /\ (pc \in HvTaskPcs) => ~BlankUrl(rows[idx].url)
    /\ (pc \in HvTaskPcs \cup {"hv_loop"}) =>
           /\ Len(results) = Len(NonBlankDone)
           /\ \A k \in 1..Len(results) :
                  /\ results[k].institution = NonBlankDone[k].institution
                  /\ results[k].start_url = NonBlankDone[k].url
    /\ (pc = "hv_stop") => (pending = "interrupt")

\* the clicks of the last call that returned
Succeeded == { i \in 1..Len(ob_last.clicks) : ob_last.clicks[i].ok }

\* C14: a call of click_by_text makes at most one click that succeeds, that
\* click is the last thing it attempts, and it returns True exactly when a
\* click succeeded.
C14_OneSuccessfulClick ==
    (ob_last.op = "click_by_text") =>
        /\ Cardinality(Succeeded) <= 1
        /\ \A i \in Succeeded : i = Len(ob_last.clicks)
        /\ (ob_last.ret = TRUE) <=> (Succeeded # {})

\* the elements of a page that some text of a candidate list matches
Matched(elems, texts) ==
    { i \in 1..Len(elems) : \E k \in 1..Len(texts) : NameMatches(texts[k], elems[i].name) }

\* a call clicked once, with success, on a page where a second clickable
\* element matched the candidates
C14_Witness ==
    /\ ob_last.op = "click_by_text"
    /\ ob_last.ret = TRUE
    /\ Len(ob_last.clicks) = 1
    /\ \E i, j \in Matched(ob_last.view.elems, ob_last.texts) :
          /\ i # j
          /\ ob_last.view.elems[i].clickable /\ ob_last.view.elems[j].clickable
          /\ ob_last.view.elems[i].name # ob_last.view.elems[j].name

\* C15 as stated: a call of click_by_text whose first click fails returns
\* False and attempts no other click.
C15_FailedClickEndsCall ==
    (ob_last.op = "click_by_text" /\ ob_last.clicks # <<>> /\ ~ob_last.clicks[1].ok) =>
        (ob_last.ret = FALSE /\ Len(ob_last.clicks) = 1)

\* the (text, role) pairs of a candidate list in the order they are tried
RECURSIVE Tries(_)
Tries(texts) ==
    IF texts = <<>> THEN <<>>
    ELSE << [t |-> Head(texts), role |-> "button"], [t |-> Head(texts), role |-> "link"] >>
         \o Tries(Tail(texts))

\* the first match of each pair that has one, in that order
FirstMatches(elems, texts) ==
    LET hit(q) == get_by_role(elems, q.role, q.t)
        live == SelectSeq(Tries(texts), LAMBDA q : hit(q) # {})
    IN  [k \in 1..Len(live) |-> elems[First(hit(live[k]))]]

\* C15 as the code has it: a click that fails is passed over and the next
\* candidate is tried: the call clicks the first match of each (text, role)
\* pair in order up to the first click that succeeds, and returns False
\* only when every one of these clicks failed.
C15_FailedClickTriesNext ==
    (ob_last.op = "click_by_text") =>
        LET m == FirstMatches(ob_last.view.elems, ob_last.texts)
            ok == { k \in 1..Len(m) : m[k].clickable }
            n == IF ok = {} THEN Len(m) ELSE First(ok)
        IN  /\ Len(ob_last.clicks) = n
            /\ \A k \in 1..n : /\ ob_last.clicks[k].name = m[k].name
                               /\ ob_last.clicks[k].ok = m[k].clickable
            /\ (ob_last.ret = FALSE) <=> (ok = {})

\* a call whose first click failed went on and clicked a later candidate
C15_Witness ==
    /\ ob_last.op = "click_by_text"
    /\ Len(ob_last.clicks) >= 2
    /\ ~ob_last.clicks[1].ok
    /\ ob_last.clicks[Len(ob_last.clicks)].ok
    /\ ob_last.ret = TRUE

\* no element of the page matches what a call looks for
NothingMatches(op, texts, v) ==
    /\ Matched(v.elems, texts) = {}
    /\ (op = "close_modals") =>
           \A k \in 1..Len(CLOSE_ICON_SELECTORS) : \A i \in 1..Len(v.elems) :
               ~SelMatches(CLOSE_ICON_SELECTORS[k], v.elems[i])

IsPrefix(s, t) == Len(s) <= Len(t) /\ SubSeq(t, 1, Len(s)) = s

\* C16: a call of click_by_text or of an obstacle handler on a page where
\* nothing matches clicks nothing and leaves the result as it was
\* (click_by_text returning False); on a page where nothing matches any of
\* them the result stays what it was before the first call; and in every
\* call actions grows by appending only, status and file_path unchanged.
C16_NoMatchNoOp ==
    (ob_last.op # "none") =>
        /\ NothingMatches(ob_last.op, ob_last.texts, ob_last.view) =>
               /\ ob_last.clicks = <<>>
               /\ ob_result = ob_last.before
               /\ ob_view = ob_last.view
               /\ (ob_last.op = "click_by_text") => (ob_last.ret = FALSE)
        /\ (\A t \in MatcherTexts : NothingMatches("close_modals", t, ob_init.view)) =>
               (ob_result = ob_init.result /\ ob_view = ob_init.view)
        /\ IsPrefix(ob_last.before.actions, ob_result.actions)
        /\ IsPrefix(ob_init.result.actions, ob_result.actions)
        /\ ob_result.status = ob_init.result.status
        /\ ob_result.file_path = ob_init.result.file_path

\* handle_cookies ran on a page that holds elements none of which it looks
\* for, with an earlier entry in actions
C16_Witness ==
    /\ ob_last.op = "handle_cookies"
    /\ ob_last.view.elems # <<>>
    /\ NothingMatches(ob_last.op, ob_last.texts, ob_last.view)
    /\ ob_last.before.actions # <<>>
    /\ ob_result = ob_last.before

\* C17: on the task's start page no Download Trigger attempts a click
\* before the obstacle handlers and then the gate resolution have run on
\* that page (a gate reported manual-required ends the task, so a trigger
\* after the gate resolution follows a gate absent or handled).
C17_GateBeforeTrigger ==
    \A i \in 1..Len(hist.steps) :
        (hist.steps[i] = "trigger_click") =>
            \E j \in 1..(i - 1) :
                /\ hist.steps[j] = "gate"
                /\ \E k \in 1..(j - 1) : hist.steps[k] = "obstacles"

\* the responses whose headers indicate a PDF: by content-type, or by the
\* file name of content-disposition
PdfResponses == {PDF_RESPONSE, ATTACHMENT_RESPONSE}

\* the positions of the PDF responses among the responses seen on a page
PdfSeen(q) == { i \in 1..Len(sn_seen[q]) : sn_seen[q][i] \in PdfResponses }

\* C18: on every page with a sniffer, last_pdf_url is the address of the
\* latest response seen on that page whose headers indicate a PDF, and
\* empty when that page has seen none, whatever arrived on the other page.
C18_MostRecentPdfWins ==
    \A q \in DOMAIN sn_state :
        sn_state[q].last_pdf_url =
            IF PdfSeen(q) = {} THEN <<>>
            ELSE sn_seen[q][CHOOSE i \in PdfSeen(q) : \A j \in PdfSeen(q) : j <= i].url

\* the task page saw a PDF response, then another with a different address,
\* then a response that is no PDF, while the follow-up page saw none or a
\* different one
C18_Witness ==
    /\ DOMAIN sn_state = SnPages
    /\ Len(sn_seen["page"]) >= 2
    /\ \E i, j \in PdfSeen("page") : i < j /\ sn_seen["page"][i].url # sn_seen["page"][j].url
    /\ sn_state["p2"] # sn_state["page"]

====
